---- MODULE Spec2Model ----
(***************************************************************************)
(* A model of the marble-race engine, src/app/marbles/marbles-game.ts      *)
(* (class MarblesGame).                                                    *)
(*                                                                         *)
(* Units.  Every time is in MICROSECONDS, so that the fixed step           *)
(* ms('16.666ms') = 16.666 ms is the integer 16666; the source's names     *)
(* (...Ms) are kept.  Depths and abscissae are in pixels.  timeScale is    *)
(* in tenths (10 is the source's 1, 2 its 0.2, 20 its 2).                  *)
(*                                                                         *)
(* The rigid-body solver (world.step) is an external collaborator: it is   *)
(* modelled as the environment that moves the bodies, each tick, along a   *)
(* short list of representative positions (a course) and reports the       *)
(* sensor intersections that start there.  Sound is off (opts.sfx = null), so     *)
(* sfxTargetId stays null and no handler plays a cue or shakes the camera  *)
(* on behalf of the sound target.                                          *)
(***************************************************************************)
EXTENDS Integers, Sequences, FiniteSets, TLC

VARIABLES
  game,    \* the MarblesGame instance: its private fields
  now,     \* performance.now(), microseconds
  ticker,  \* TRUE iff game.onTick is attached to app.ticker
  pc,      \* position inside the onTick callback: "idle" | "loop"
  round,   \* number of rounds started so far
  steps,   \* number of stepOnce() calls so far
  client,  \* useMarblesEngine: its refs (true: set) and its state
  call,    \* the request the last step served and what it returned (null: none)
  requests \* number of camera requests served so far

vars == <<game, now, ticker, pc, round, steps, client, call, requests>>

(***************************************************************************)
(* Bounds of the model                                                     *)
(***************************************************************************)
MaxRounds == 1
MaxTicks == 4
MaxNowSec == 27
NumAgents == 2
CutAgents == 50
CutExtra == 6
CutTicks == 3
GateAgents == 1
GateTicks == 8
GateNowSec == 40
CamAgents == 2
CamTicks == 2
CamNowSec == 6
MaxRequests == 1
RankAgents == 11
FinAgents == 10
FinTicks == 3
FinNowSec == 27
AgainRounds == 2
AgainTicks == 3
AgainNowSec == 27

(***************************************************************************)
(* Program constants                                                       *)
(***************************************************************************)
US == 1000                          \* microseconds per millisecond
Msec(n) == n * US                   \* ms('<n>ms')
Sec(n) == n * 1000 * US             \* ms('<n>s')

WORLD_W == 1280
WORLD_H == 9200
CUP_X == WORLD_W \div 2
CUP_Y == WORLD_H - 120
POST_FINISH_MS == Sec(10)
POST_FINISH_RUN_MS == Sec(10)
TOP10_FINISHERS_TARGET == 10
FAST_FORWARD_SCALE == 20
FIXED_STEP_MS == 16666
FRAME_CLAMP_MS == Msec(50)
OUT_OF_BOUNDS_Y == WORLD_H + 400
OUT_OF_BOUNDS_X_PAD == 160
NEGATIVE_INFINITY == -1000000
POSITIVE_INFINITY == 1000000
MIN_ROUND_LO_MS == Sec(5)
MIN_ROUND_HI_MS == Sec(600)
WARP_X == 640
WARP_Y == 4700
CUP_HARD_R == 120
BOUNCE_BACK == 44

Null == [null |-> TRUE]

Max(a, b) == IF a >= b THEN a ELSE b
Min(a, b) == IF a <= b THEN a ELSE b
clamp(n, lo, hi) == Max(lo, Min(hi, n))

checkpointsY == <<2800, 6400>>

\* buildMap's addJet calls: the three jet bands, index 1..3 for the source's 0..2.
JetBands ==
  << [y |-> 2860,        activeUntilMs |-> Sec(28), upVel |-> 2800],
     [y |-> 5200,        activeUntilMs |-> Sec(52), upVel |-> 3200],
     [y |-> CUP_Y - 980, activeUntilMs |-> Sec(70), upVel |-> 3600] >>

\* buildMap's warp zones (sensor cuboids): centre and half extents.
WarpZones ==
  { [x |-> 360, y |-> 6100, halfW |-> 90, halfH |-> 18],
    [x |-> 920, y |-> 6400, halfW |-> 90, halfH |-> 18] }

\* buildMap's speed pad (a sensor cuboid), and its slow pad, magnet pit and bomb
\* zone as the maps slowByHandle, magnetByHandle and bombByHandle hold them,
\* each under the handle of its sensor.
BoostPad == [x |-> 640, y |-> 8420, halfW |-> 100, halfH |-> 16]

SlowPads ==
  [h \in {"slow"} |->
     [x |-> 640, y |-> 7060, halfW |-> 140, halfH |-> 18,
      cooldownMs |-> Msec(240), lastAtMs |-> 0]]

MagnetPits ==
  [h \in {"magnet"} |->
     [x |-> 820, y |-> 5600, pullY |-> 5600 - 240, radius |-> 160,
      durationMs |-> Sec(3), cooldownMs |-> Msec(180), lastAtMs |-> 0]]

Bombs ==
  [h \in {"bomb"} |->
     [x |-> 1040, y |-> 7720, radius |-> 140, cooldownMs |-> Msec(700), lastAtMs |-> 0]]

\* Two of buildMap's bumpers, addBumper(640, 6100, 30) and addBumper(640, 980, 34),
\* as kickerByHandle holds them (activeUntilMs 0: the entry has none).
Kickers ==
  [h \in {"bumper", "mega"} |->
     IF h = "mega"
     THEN [x |-> 640, y |-> 980, radius |-> 34, playSfx |-> TRUE, activeUntilMs |-> 0,
           cooldownMs |-> Msec(140), fxKind |-> "mega"]
     ELSE [x |-> 640, y |-> 6100, radius |-> 30, playSfx |-> TRUE, activeUntilMs |-> 0,
           cooldownMs |-> Msec(170), fxKind |-> "bumper"]]

MARBLE_R == 7
SCREEN_H == 720                      \* VIEW_H of ./view, which is not among the sources
SCREEN_W == 1280                     \* VIEW_W of ./view (the preview is 16:9)
CAMERA_Y_ANCHOR == 45                \* CAMERA_Y_ANCHOR of ./view, in hundredths
CUP_SENSOR_R == 96

\* focusId is a participant id (an index of the marble list), 0 for null.
InitCamera ==
  [x |-> 0, y |-> 0, mode |-> "auto", focusUntilMs |-> 0, focusId |-> 0,
   manualUntilMs |-> 0, peekUntilMs |-> 0, peekReturn |-> Null,
   shakeUntilMs |-> 0, shakeAmp |-> 0]

\* The field initialisers of the class.  emitted and rankUses are not fields:
\* emitted lists the calls of this.onUi (the snapshots delivered) made by the
\* handler that ran last, rankUses the rank tests (of tryWarp and tryBoost) that
\* handler made.  staleBodyUses is not a field either: it collects the agents
\* whose rigid body or collider a handler read or wrote while the world no
\* longer held it.
\* A map (kickerByHandle, magnetByHandle, ...) after clear().
EmptyMap == [h \in {} |-> Null]

IdleGame ==
  [phase |-> "idle", onUi |-> FALSE, world |-> Null, worldContainer |-> FALSE,
   checkpointIndex |-> 0, cutState |-> Null,
   bottom30MaxProgress |-> NEGATIVE_INFINITY,
   top10MinProgress |-> POSITIVE_INFINITY,
   top30MinProgress |-> POSITIVE_INFINITY,
   timeScale |-> 10, slowMoUntilMs |-> 0, slowMoCooldownUntilMs |-> 0,
   fastForwardOn |-> FALSE,
   finishState |-> Null, winner |-> Null, winnerToastUntilMs |-> 0,
   eliminatedBy |-> [fall |-> 0, cut |-> 0], minRoundEndsAtMs |-> 0,
   jetBands |-> <<>>, cupEntries |-> <<>>, cupEntryById |-> {},
   marbles |-> <<>>, marblesByCollider |-> {},
   kickerByHandle |-> EmptyMap, magnetByHandle |-> EmptyMap,
   bombByHandle |-> EmptyMap, slowByHandle |-> EmptyMap,
   bumperFx |-> <<>>, lastBumperFxAtMs |-> 0,
   startedAtMs |-> 0, elapsedMs |-> 0, accumulatorMs |-> 0, lastTickMs |-> 0,
   lastUiEmitMs |-> 0, camera |-> InitCamera, emitted |-> <<>>, rankUses |-> <<>>,
   staleBodyUses |-> {}]

(***************************************************************************)
(* Rank thresholds                                                         *)
(***************************************************************************)
Alive(g) == {i \in DOMAIN g.marbles : ~g.marbles[i].isEliminated}

\* m.body or m.collider is read or written for every agent m of S.
useBody(g, S) ==
  [g EXCEPT !.staleBodyUses =
              @ \cup {i \in S : g.world = Null \/ i \notin g.world.bodies
                                 \/ i \notin g.world.colliders}]

\* Position (1-based) of marble i in alive.slice().sort((a, b) => b.progressY - a.progressY):
\* the sort is stable, so equal progress keeps list order.
RankDesc(g, i) ==
  1 + Cardinality({j \in Alive(g) :
        \/ g.marbles[j].progressY > g.marbles[i].progressY
        \/ g.marbles[j].progressY = g.marbles[i].progressY /\ j < i})

\* The marble of the non-empty S \subseteq Alive(g) that comes first in that sort.
FirstDesc(g, S) ==
  CHOOSE i \in S : \A j \in S :
     \/ g.marbles[i].progressY > g.marbles[j].progressY
     \/ g.marbles[i].progressY = g.marbles[j].progressY /\ i <= j

\* sortedDesc[idx] for a 0-based idx
SortedDescAt(g, idx) == CHOOSE i \in Alive(g) : RankDesc(g, i) = idx + 1

CeilTenths(n, tenths) == (n * tenths + 9) \div 10     \* Math.ceil(n * 0.<tenths>)

\* updateRankThresholds whose bottom-30% index is aliveCount - bottom30Count - 1
updateRankThresholds_mut(g) ==
  LET aliveCount == Cardinality(Alive(g))
      top10Count == Max(1, CeilTenths(aliveCount, 1))
      top30Count == Max(1, CeilTenths(aliveCount, 3))
      bottom30Count == Max(1, CeilTenths(aliveCount, 3))
      top10Idx == clamp(top10Count - 1, 0, aliveCount - 1)
      top30Idx == clamp(top30Count - 1, 0, aliveCount - 1)
      bottom30Idx == clamp(aliveCount - bottom30Count - 1, 0, aliveCount - 1)
  IN IF aliveCount = 0 THEN g
     ELSE [g EXCEPT
            !.top10MinProgress = g.marbles[SortedDescAt(g, top10Idx)].progressY,
            !.top30MinProgress = g.marbles[SortedDescAt(g, top30Idx)].progressY,
            !.bottom30MaxProgress = g.marbles[SortedDescAt(g, bottom30Idx)].progressY]

updateRankThresholds(g) ==
  LET aliveCount == Cardinality(Alive(g))
      top10Count == Max(1, CeilTenths(aliveCount, 1))
      top30Count == Max(1, CeilTenths(aliveCount, 3))
      bottom30Count == Max(1, CeilTenths(aliveCount, 3))
      top10Idx == clamp(top10Count - 1, 0, aliveCount - 1)
      top30Idx == clamp(top30Count - 1, 0, aliveCount - 1)
      bottom30Idx == clamp(aliveCount - bottom30Count, 0, aliveCount - 1)
  IN IF aliveCount = 0 THEN g
     ELSE [g EXCEPT
            !.top10MinProgress = g.marbles[SortedDescAt(g, top10Idx)].progressY,
            !.top30MinProgress = g.marbles[SortedDescAt(g, top30Idx)].progressY,
            !.bottom30MaxProgress = g.marbles[SortedDescAt(g, bottom30Idx)].progressY]

ensureRankThresholds(g) ==
  IF /\ g.bottom30MaxProgress # NEGATIVE_INFINITY
     /\ g.top10MinProgress # POSITIVE_INFINITY
     /\ g.top30MinProgress # POSITIVE_INFINITY
  THEN g
  ELSE updateRankThresholds(g)

\* isTop30(m) after its ensureRankThresholds(); g is the state ensure returned.
isTop30(g, i) == g.marbles[i].progressY >= g.top30MinProgress

\* isTop10(m) and isBottom30(m), likewise.
isTop10(g, i) == g.marbles[i].progressY >= g.top10MinProgress

isBottom30(g, i) == g.marbles[i].progressY <= g.bottom30MaxProgress

\* The three thresholds of g.
Thresholds(g) ==
  [top10Min |-> g.top10MinProgress, top30Min |-> g.top30MinProgress,
   bottom30Max |-> g.bottom30MaxProgress]

\* The rank test of marble i by a modifier handler: g is the game when the
\* handler calls isTop30, g1 the game its ensureRankThresholds() returned.  The
\* note keeps the thresholds the test reads and those the alive marbles'
\* progress gives at that moment.
noteRankUse(g, g1, i) ==
  [g1 EXCEPT !.rankUses = Append(@, [id |-> i, progressY |-> g.marbles[i].progressY,
                                     used |-> Thresholds(g1),
                                     current |-> Thresholds(updateRankThresholds(g))])]

(***************************************************************************)
(* Snapshot emission                                                       *)
(***************************************************************************)
UI_EMIT_EVERY_MS == Msec(100)
TOP10_ROWS == 10

\* The rows of the cup entrants: cupEntries[0 .. 9], in entry order.
FinisherRows(g) ==
  [k \in 1..Min(Len(g.cupEntries), TOP10_ROWS) |->
     [rank |-> k, id |-> g.cupEntries[k].id, progressY |-> CUP_Y, didFinish |-> TRUE,
      isFocusTarget |-> g.camera.focusId = g.cupEntries[k].id]]

\* sortedAll without the filter on cupEntryById
Chasers_mut(g) == Alive(g)

\* sortedAll.filter(m => !cupEntryById.has(id)): the alive marbles that are not
\* in the finish record.
Chasers(g) == {i \in Alive(g) : i \notin g.cupEntryById}

\* The rows of the first `remaining` marbles of S, in the order of sortedAll, ranked
\* from first + 1 on.
RECURSIVE ChaserRows(_, _, _, _)
ChaserRows(g, S, first, remaining) ==
  IF remaining <= 0 \/ S = {} THEN <<>>
  ELSE LET i == FirstDesc(g, S)
       IN <<[rank |-> first + 1, id |-> i, progressY |-> g.marbles[i].progressY,
             didFinish |-> FALSE, isFocusTarget |-> g.camera.focusId = i]>>
          \o ChaserRows(g, S \ {i}, first + 1, remaining - 1)

\* The snapshot emitUi hands to onUi at time t (names, colours, the highlight flag
\* and the constant world sizes are left out).
Snapshot(g, t) ==
  LET finishers == FinisherRows(g)
      remaining == TOP10_ROWS - Len(finishers)
      top10 == IF remaining > 0
               THEN finishers \o ChaserRows(g, Chasers(g), Len(finishers), remaining)
               ELSE finishers
  IN [phase |-> g.phase,
      elapsedMs |-> g.elapsedMs,
      totalCount |-> Len(g.marbles),
      aliveCount |-> Cardinality(Alive(g)),
      finishedCount |-> Len(g.cupEntries),
      eliminatedCount |-> g.eliminatedBy.fall + g.eliminatedBy.cut,
      eliminatedBy |-> g.eliminatedBy,
      top10 |-> top10,
      camera |-> [x |-> g.camera.x, y |-> g.camera.y],
      cut |-> IF g.cutState # Null
              THEN [checkpointNumber |-> g.cutState.checkpointNumber,
                    remainingMs |-> Max(0, g.cutState.endsAtMs - t),
                    cutCount |-> g.cutState.cutCount]
              ELSE Null,
      slowMo |-> IF g.timeScale < 10
                 THEN [remainingMs |-> Max(0, g.slowMoUntilMs - t)] ELSE Null,
      fastForward |-> IF g.timeScale > 10 THEN [scale |-> g.timeScale] ELSE Null,
      focus |-> IF g.camera.mode = "focus" /\ g.camera.focusId # 0
                   /\ t < g.camera.focusUntilMs
                THEN [id |-> g.camera.focusId,
                      remainingMs |-> Max(0, g.camera.focusUntilMs - t)]
                ELSE Null,
      postFinish |-> IF g.finishState # Null /\ t < g.finishState.postEndsAtMs
                     THEN [remainingMs |-> Max(0, g.finishState.postEndsAtMs - t)]
                     ELSE Null,
      winner |-> g.winner,
      winnerToast |-> IF g.winner # Null /\ t < g.winnerToastUntilMs
                      THEN [remainingMs |-> Max(0, g.winnerToastUntilMs - t)]
                      ELSE Null]

\* emitUi without the test of the time since the last emission
emitUi_mut(g, force, t) ==
  IF ~g.onUi THEN g
  ELSE LET g1 == updateRankThresholds([g EXCEPT !.lastUiEmitMs = t])
       IN [g1 EXCEPT !.emitted = Append(@, [force |-> force, atMs |-> t,
                                            snap |-> Snapshot(g1, t)])]

\* emitUi(force) at time t = performance.now().  The delivered snapshot is built
\* after the thresholds are refreshed; emitted records it with the time and the
\* force flag of the call.
emitUi(g, force, t) ==
  IF ~g.onUi THEN g
  ELSE IF ~force /\ t - g.lastUiEmitMs < UI_EMIT_EVERY_MS THEN g
  ELSE LET g1 == updateRankThresholds([g EXCEPT !.lastUiEmitMs = t])
       IN [g1 EXCEPT !.emitted = Append(@, [force |-> force, atMs |-> t,
                                            snap |-> Snapshot(g1, t)])]

(***************************************************************************)
(* Elimination and the finish record                                       *)
(***************************************************************************)
\* removeFromWorld that releases the body and the collider but forgets the flag
removeFromWorld_mut(g, i, nowMs, hideImmediately) ==
  IF g.world = Null THEN g
  ELSE IF g.marbles[i].isEliminated THEN g
  ELSE [g EXCEPT
         !.marblesByCollider = @ \ {i},
         !.world.colliders = @ \ {i},
         !.world.bodies = @ \ {i},
         !.world.removeCalls[i] = @ + 1]

removeFromWorld(g, i, nowMs, hideImmediately) ==
  IF g.world = Null THEN g
  ELSE IF g.marbles[i].isEliminated THEN g
  ELSE [g EXCEPT
         !.marbles[i].isEliminated = TRUE,
         !.marblesByCollider = @ \ {i},
         !.world.colliders = @ \ {i},
         !.world.bodies = @ \ {i},
         !.world.removeCalls[i] = @ + 1]

eliminate(g, i, nowMs, reason) ==
  IF g.marbles[i].isEliminated THEN g
  ELSE removeFromWorld(
         [g EXCEPT !.eliminatedBy[reason] = @ + 1], i, nowMs, FALSE)

\* recordCupEntry that puts the newcomer at the head of the record
recordCupEntry_mut(g, i, nowMs) ==
  IF i \in g.cupEntryById THEN g
  ELSE [g EXCEPT !.cupEntryById = @ \cup {i},
                 !.cupEntries = <<[id |-> i, atMs |-> nowMs]>> \o @]

recordCupEntry(g, i, nowMs) ==
  IF i \in g.cupEntryById THEN g
  ELSE [g EXCEPT !.cupEntryById = @ \cup {i},
                 !.cupEntries = Append(@, [id |-> i, atMs |-> nowMs])]

beginFinishSequence(g, nowMs) ==
  IF g.phase # "running" THEN g
  ELSE IF g.finishState # Null THEN g
  ELSE IF Len(g.cupEntries) = 0 THEN g
  ELSE
    LET first == g.cupEntries[1]
        g1 == [g EXCEPT
                !.winner = [id |-> first.id],
                !.finishState = [winnerId |-> first.id,
                                 postEndsAtMs |-> nowMs + POST_FINISH_MS,
                                 stopAtMs |-> nowMs + POST_FINISH_RUN_MS]]
        g2 == IF g1.camera.mode = "auto" /\ g1.worldContainer
              THEN [g1 EXCEPT
                     !.camera.mode = "manual",
                     !.camera.manualUntilMs = nowMs + POST_FINISH_RUN_MS,
                     !.camera.x = 0,
                     !.camera.y = clamp((CUP_Y * 100 - SCREEN_H * 72) \div 100, 0, WORLD_H - SCREEN_H)]
              ELSE g1
    IN emitUi(g2, TRUE, nowMs)

\* onCupEntry that starts the finish sequence without looking at the deadline
onCupEntry_mut(g, i, nowMs) ==
  IF g.marbles[i].isEliminated THEN g
  ELSE
    LET fastForward(g1) ==
          IF ~g1.fastForwardOn /\ Len(g1.cupEntries) >= TOP10_FINISHERS_TARGET
          THEN emitUi([g1 EXCEPT
                         !.fastForwardOn = TRUE,
                         !.timeScale = FAST_FORWARD_SCALE,
                         !.camera.shakeUntilMs = Max(@, nowMs + Msec(140)),
                         !.camera.shakeAmp = Max(@, 4)], TRUE, nowMs)
          ELSE g1
        announceWinner(g2) ==
          IF g2.winner = Null /\ Len(g2.cupEntries) > 0
          THEN emitUi([g2 EXCEPT
                         !.winner = [id |-> g2.cupEntries[1].id],
                         !.winnerToastUntilMs = nowMs + Sec(6)], TRUE, nowMs)
          ELSE g2
        finishIfDue(g4) ==
          IF g4.phase = "running" /\ Len(g4.cupEntries) > 0
          THEN beginFinishSequence(g4, nowMs)
          ELSE g4
    IN finishIfDue(removeFromWorld(
         announceWinner(fastForward(recordCupEntry(g, i, nowMs))), i, nowMs, TRUE))

onCupEntry(g, i, nowMs) ==
  IF g.marbles[i].isEliminated THEN g
  ELSE
    LET fastForward(g1) ==
          IF ~g1.fastForwardOn /\ Len(g1.cupEntries) >= TOP10_FINISHERS_TARGET
          THEN emitUi([g1 EXCEPT
                         !.fastForwardOn = TRUE,
                         !.timeScale = FAST_FORWARD_SCALE,
                         !.camera.shakeUntilMs = Max(@, nowMs + Msec(140)),
                         !.camera.shakeAmp = Max(@, 4)], TRUE, nowMs)
          ELSE g1
        announceWinner(g2) ==
          IF g2.winner = Null /\ Len(g2.cupEntries) > 0
          THEN emitUi([g2 EXCEPT
                         !.winner = [id |-> g2.cupEntries[1].id],
                         !.winnerToastUntilMs = nowMs + Sec(6)], TRUE, nowMs)
          ELSE g2
        finishIfDue(g4) ==
          IF g4.phase = "running" /\ nowMs >= g4.minRoundEndsAtMs
            /\ Len(g4.cupEntries) > 0
          THEN beginFinishSequence(g4, nowMs)
          ELSE g4
    IN finishIfDue(removeFromWorld(
         announceWinner(fastForward(recordCupEntry(g, i, nowMs))), i, nowMs, TRUE))

\* endRound that closes the finish sequence but leaves the phase as it is
endRound_mut(g, nowMs) ==
  IF g.phase # "running" THEN g
  ELSE IF Len(g.cupEntries) = 0 THEN g
  ELSE emitUi([g EXCEPT !.winner = [id |-> g.cupEntries[1].id],
                        !.finishState = Null], TRUE, nowMs)

\* endRound's effect on the game; the caller detaches the ticker when the phase
\* became "finished" (app.ticker.remove(this.onTick), the last statement).
endRound(g, nowMs) ==
  IF g.phase # "running" THEN g
  ELSE IF Len(g.cupEntries) = 0 THEN g
  ELSE emitUi(
         [g EXCEPT
           !.winner = [id |-> g.cupEntries[1].id],
           !.phase = "finished",
           !.finishState = Null,
           !.camera.mode = IF @ = "focus" THEN "auto" ELSE @,
           !.camera.focusUntilMs = 0,
           !.camera.focusId = 0], TRUE, nowMs)

(***************************************************************************)
(* Modifier handlers                                                       *)
(***************************************************************************)
tryWarp(g, i, nowMs) ==
  IF g.marbles[i].warpUsed THEN g
  ELSE
    LET warpIfTop30(g1) ==
          IF ~isTop30(g1, i) THEN g1
          ELSE [g1 EXCEPT
                 !.marbles[i].warpUsed = TRUE,
                 !.marbles[i].body = [x |-> WARP_X, y |-> WARP_Y],
                 !.marbles[i].progressY = WARP_Y,
                 !.marbles[i].lastProgressY = WARP_Y,
                 !.marbles[i].lastY = WARP_Y,
                 !.marbles[i].lastMovedAtMs = nowMs]
    IN warpIfTop30(noteRankUse(g, ensureRankThresholds(g), i))

Dist2(p, x, y) == (p.x - x) * (p.x - x) + (p.y - y) * (p.y - y)

\* The branch of tryBoost marble i of g1 takes (g1: after ensureRankThresholds).
boostResponse(g1, i) ==
  IF isBottom30(g1, i) THEN "catchup"
  ELSE IF isTop10(g1, i) THEN "debuff"
  ELSE "mid"

\* tryBoost without its cooldown test
tryBoost_mut(g, i, nowMs) ==
  LET cooled == [g EXCEPT !.marbles[i].boostCooldownUntilMs = nowMs + Msec(900)]
      respond(g1) == [g1 EXCEPT !.marbles[i].impulses = @ + 1,
                                !.marbles[i].boost = boostResponse(g1, i)]
  IN respond(noteRankUse(cooled, ensureRankThresholds(cooled), i))

\* Bottom 30 %, top 10 % or middle pack: each branch sets the body's velocity
\* once and returns; boost keeps the branch taken.
tryBoost(g, i, nowMs) ==
  IF nowMs < g.marbles[i].boostCooldownUntilMs THEN g
  ELSE LET cooled == [g EXCEPT !.marbles[i].boostCooldownUntilMs = nowMs + Msec(900)]
           respond(g1) == [g1 EXCEPT !.marbles[i].impulses = @ + 1,
                                     !.marbles[i].boost = boostResponse(g1, i)]
       IN respond(noteRankUse(cooled, ensureRankThresholds(cooled), i))

trySlow(g, sensorHandle, i, nowMs) ==
  IF sensorHandle \notin DOMAIN g.slowByHandle THEN g
  ELSE IF nowMs - g.slowByHandle[sensorHandle].lastAtMs
            < g.slowByHandle[sensorHandle].cooldownMs THEN g
  ELSE [ensureRankThresholds([g EXCEPT !.slowByHandle[sensorHandle].lastAtMs = nowMs])
          EXCEPT !.marbles[i].impulses = @ + 1]

tryMagnet(g, sensorHandle, i, nowMs) ==
  IF sensorHandle \notin DOMAIN g.magnetByHandle THEN g
  ELSE IF nowMs - g.magnetByHandle[sensorHandle].lastAtMs
            < g.magnetByHandle[sensorHandle].cooldownMs THEN g
  ELSE
    LET hold(g1) ==
          IF ~isTop10(g1, i) THEN g1
          ELSE [g1 EXCEPT
                 !.marbles[i].magnetUntilMs = nowMs + g.magnetByHandle[sensorHandle].durationMs,
                 !.marbles[i].magnetX = g.magnetByHandle[sensorHandle].x,
                 !.marbles[i].magnetY = g.magnetByHandle[sensorHandle].pullY,
                 !.marbles[i].impulses = @ + 1]
    IN hold(ensureRankThresholds([g EXCEPT !.magnetByHandle[sensorHandle].lastAtMs = nowMs]))

tryBomb(g, sensorHandle, trigger, nowMs) ==
  IF sensorHandle \notin DOMAIN g.bombByHandle THEN g
  ELSE IF nowMs - g.bombByHandle[sensorHandle].lastAtMs
            < g.bombByHandle[sensorHandle].cooldownMs THEN g
  ELSE [useBody(g, {j \in DOMAIN g.marbles : ~g.marbles[j].isEliminated}) EXCEPT
         !.bombByHandle[sensorHandle].lastAtMs = nowMs,
         !.marbles = [j \in DOMAIN g.marbles |->
                        IF /\ ~g.marbles[j].isEliminated
                           /\ Dist2(g.marbles[j].body, g.bombByHandle[sensorHandle].x,
                                    g.bombByHandle[sensorHandle].y)
                                <= g.bombByHandle[sensorHandle].radius
                                     * g.bombByHandle[sensorHandle].radius
                        THEN [g.marbles[j] EXCEPT !.impulses = @ + 1]
                        ELSE g.marbles[j]]]

\* No sound is attached (sfx, sfxTargetId are null), so the handlers neither play
\* nor shake the camera.  A kicker that plays no sound is a jet: it only sets
\* the velocity.
tryKicker(g, sensorHandle, i, nowMs) ==
  IF sensorHandle \notin DOMAIN g.kickerByHandle THEN g
  ELSE IF /\ g.kickerByHandle[sensorHandle].activeUntilMs # 0
          /\ nowMs - g.startedAtMs >= g.kickerByHandle[sensorHandle].activeUntilMs THEN g
  ELSE IF nowMs < g.marbles[i].kickerCooldownUntilMs THEN g
  ELSE IF ~g.kickerByHandle[sensorHandle].playSfx
  THEN [g EXCEPT
         !.marbles[i].kickerCooldownUntilMs = nowMs + g.kickerByHandle[sensorHandle].cooldownMs,
         !.marbles[i].impulses = @ + 1]
  ELSE [g EXCEPT
         !.marbles[i].kickerCooldownUntilMs = nowMs + g.kickerByHandle[sensorHandle].cooldownMs,
         !.marbles[i].impulses = @ + 1,
         !.marbles[i].bumpedAtMs = nowMs,
         !.lastBumperFxAtMs = IF nowMs - g.lastBumperFxAtMs >= Msec(26) THEN nowMs ELSE @,
         !.bumperFx = IF nowMs - g.lastBumperFxAtMs >= Msec(26)
                      THEN LET fx == Append(@, [handle |-> sensorHandle, atMs |-> nowMs])
                           IN IF Len(fx) > 40 THEN Tail(fx) ELSE fx
                      ELSE @]

\* onSensor without its test of marble.isEliminated
onSensor_mut(g, kind, sensorHandle, i, nowMs) ==
  IF kind = "cup" THEN onCupEntry(g, i, nowMs)
  ELSE IF kind = "warp" THEN tryWarp(g, i, nowMs)
  ELSE IF kind = "boost" THEN tryBoost(g, i, nowMs)
  ELSE IF kind = "slow" THEN trySlow(g, sensorHandle, i, nowMs)
  ELSE IF kind = "magnet" THEN tryMagnet(g, sensorHandle, i, nowMs)
  ELSE IF kind = "bomb" THEN tryBomb(g, sensorHandle, i, nowMs)
  ELSE IF kind = "kicker" THEN tryKicker(g, sensorHandle, i, nowMs)
  ELSE g

onSensor(g, kind, sensorHandle, i, nowMs) ==
  IF g.marbles[i].isEliminated THEN g
  ELSE IF kind = "cup" THEN onCupEntry(g, i, nowMs)
  ELSE IF kind = "warp" THEN tryWarp(useBody(g, {i}), i, nowMs)
  ELSE IF kind = "boost" THEN tryBoost(useBody(g, {i}), i, nowMs)
  ELSE IF kind = "slow" THEN trySlow(useBody(g, {i}), sensorHandle, i, nowMs)
  ELSE IF kind = "magnet" THEN tryMagnet(useBody(g, {i}), sensorHandle, i, nowMs)
  ELSE IF kind = "bomb" THEN tryBomb(g, sensorHandle, i, nowMs)
  ELSE IF kind = "kicker" THEN tryKicker(useBody(g, {i}), sensorHandle, i, nowMs)
  ELSE g

(***************************************************************************)
(* The physics collaborator                                                *)
(***************************************************************************)
\* Representative body positions, top to bottom (the course a specification's
\* environment uses is a subsequence of these).
P2850 == [x |-> 640, y |-> 2850]    \* past checkpoint 1 (2800), 10 px above band 1 (2860)
P5300 == [x |-> 640, y |-> 5300]    \* below band 2 (5200)
P6100 == [x |-> 360, y |-> 6100]    \* inside the first warp zone
P6450 == [x |-> 640, y |-> 6450]    \* past checkpoint 2 (6400)
P8200 == [x |-> 640, y |-> 8200]    \* below band 3 (8100)
P8965 == [x |-> 640, y |-> 8965]    \* 115 px above the cup centre: no sensor contact
P9000 == [x |-> 640, y |-> 9000]    \* inside the cup sensor
P9150 == [x |-> 300, y |-> 9150]    \* on the floor beside the cup, below its centre
\* Out of the world sideways, at the depth of p.
OutOfBounds(p) == [x |-> WORLD_W + OUT_OF_BOUNDS_X_PAD + 100, y |-> p.y]

BandsBetween(y0, y1) ==
  {b \in DOMAIN JetBands : y0 < JetBands[b].y /\ JetBands[b].y <= y1}

\* world.step(): where the solver may put a body that was at p.  It goes down the
\* course by one or two listed positions, or (when p is in fallsFrom) leaves the
\* world.
PhysicsMoves(p, course, fallsFrom) ==
  { course[k] : k \in {k \in DOMAIN course :
       /\ course[k].y > p.y
       /\ Cardinality({j \in DOMAIN course :
                         p.y < course[j].y /\ course[j].y < course[k].y}) <= 1} }
  \cup (IF p \in fallsFrom THEN {OutOfBounds(p)} ELSE {})

InWarpZone(p) ==
  \E z \in WarpZones :
     /\ p.x >= z.x - z.halfW - MARBLE_R /\ p.x <= z.x + z.halfW + MARBLE_R
     /\ p.y >= z.y - z.halfH - MARBLE_R /\ p.y <= z.y + z.halfH + MARBLE_R

InCupSensor(p) ==
  Dist2(p, CUP_X, CUP_Y) <= (CUP_SENSOR_R + MARBLE_R) * (CUP_SENSOR_R + MARBLE_R)

InCuboid(p, z) ==
  /\ p.x >= z.x - z.halfW - MARBLE_R /\ p.x <= z.x + z.halfW + MARBLE_R
  /\ p.y >= z.y - z.halfH - MARBLE_R /\ p.y <= z.y + z.halfH + MARBLE_R

InBall(p, z, r) == Dist2(p, z.x, z.y) <= (r + MARBLE_R) * (r + MARBLE_R)

\* The marble at p touches the sensor with handle h (both warp zones stand under
\* the one handle "warp": tryWarp does not look at the handle; a bumper's sensor
\* is 26 px wider than the bumper).
InSensor(kind, h, p) ==
  IF kind = "cup" THEN InCupSensor(p)
  ELSE IF kind = "warp" THEN InWarpZone(p)
  ELSE IF kind = "boost" THEN InCuboid(p, BoostPad)
  ELSE IF kind = "slow" THEN InCuboid(p, SlowPads[h])
  ELSE IF kind = "magnet" THEN InBall(p, MagnetPits[h], MagnetPits[h].radius)
  ELSE IF kind = "bomb" THEN InBall(p, Bombs[h], Bombs[h].radius)
  ELSE InBall(p, Kickers[h], Kickers[h].radius + 26)

\* The collision events (started = true) the event queue holds after a step that
\* took marble i from p to q: one per sensor the marble newly touches.
StartedEvents(i, p, q) ==
  LET event(kind, h) == <<[kind |-> kind, sensor |-> h, marble |-> i]>>
      into(kind, h) == IF InSensor(kind, h, q) /\ ~InSensor(kind, h, p)
                       THEN event(kind, h) ELSE <<>>
  IN into("cup", "cup") \o into("warp", "warp") \o into("boost", "boost")
     \o into("slow", "slow") \o into("magnet", "magnet") \o into("bomb", "bomb")
     \o into("kicker", "bumper") \o into("kicker", "mega")

\* The queue after a step: the moved marbles' events, by ascending or descending
\* marble index.
RECURSIVE EventQueue(_, _, _, _)
EventQueue(g, moves, i, descending) ==
  IF i < 1 \/ i > Len(g.marbles) THEN <<>>
  ELSE (IF i \in DOMAIN moves THEN StartedEvents(i, g.marbles[i].body, moves[i]) ELSE <<>>)
       \o EventQueue(g, moves, IF descending THEN i - 1 ELSE i + 1, descending)

\* The environment of a specification: who may be moved, each mover's course and
\* the positions it may fall out from, the speeds the bodies may have, the intervals
\* between two frames (the short ones, below a second, occur in the first second
\* of a round and while bodies still move), the number of ticks (over all rounds)
\* after which every body is at rest, and the time, in seconds, of the last frame.
Env(movers, course, fallsFrom, speeds, deltas, ticks, untilSec) ==
  [movers |-> movers, course |-> course, fallsFrom |-> fallsFrom, speeds |-> speeds,
   deltas |-> deltas, ticks |-> ticks, untilSec |-> untilSec]

AtRest(n, env) == n >= env.ticks

\* The marbles whose move crosses the line of band 2 or 3: those for which the
\* Math.random() < JET_JACKPOT_PASS_CHANCE draw can matter (band 1 never draws).
Drawers(g, moves) ==
  {i \in DOMAIN moves :
     \E b \in BandsBetween(g.marbles[i].body.y, moves[i].y) : b > 1}

\* The ways the solver may place the bodies of M: each where it was or at one of
\* its PhysicsMoves.  A step of the course stands for many short steps of the
\* solver, so a body the scan has not yet seen where it is (lastY differs from
\* its depth: the scan was cut short, or the body was teleported after its scan)
\* is still there on the next tick.
RECURSIVE MoveSets(_, _, _)
MoveSets(g, env, M) ==
  IF M = {} THEN {<<>>}
  ELSE LET i == CHOOSE i \in M : \A j \in M : i >= j
           here == g.marbles[i].body
           seen == g.marbles[i].lastY = here.y
       IN { rest @@ (i :> q) :
              rest \in MoveSets(g, env, M \ {i}),
              q \in {here} \cup (IF seen
                                 THEN PhysicsMoves(here, env.course[i], env.fallsFrom[i])
                                 ELSE {}) }

\* What one tick takes from outside the game: where the solver put each body it
\* is allowed to move (possibly where it was), the marbles whose jackpot draw
\* succeeds, the order of the event queue (read only when it holds two events or
\* more), and every body's speed.
TickInputs(g, env, n) ==
  UNION { { [moves |-> mv, jackpot |-> jp, descending |-> d, speed |-> sp] :
              jp \in SUBSET Drawers(g, mv),
              d \in IF Len(EventQueue(g, mv, 1, FALSE)) > 1 THEN BOOLEAN ELSE {FALSE},
              sp \in env.speeds }
          : mv \in MoveSets(g, env, IF AtRest(n, env) THEN {}
                                     ELSE env.movers \cap g.world.bodies) }

(***************************************************************************)
(* stepOnce                                                                *)
(***************************************************************************)
RECURSIVE drainCollisionEvents(_, _, _, _)
drainCollisionEvents(g, events, k, nowMs) ==
  IF k > Len(events) THEN g
  ELSE LET e == events[k]
           g1 == IF e.marble \in g.marblesByCollider
                 THEN onSensor(g, e.kind, e.sensor, e.marble, nowMs)
                 ELSE g
       IN drainCollisionEvents(g1, events, k + 1, nowMs)

\* The band loop without its test of the marble's mask
BandHit_mut(g, m, y, nowMs) ==
  LET elapsedMs == nowMs - g.startedAtMs
      hits == {b \in DOMAIN g.jetBands :
                 /\ ~(elapsedMs >= g.jetBands[b].activeUntilMs)
                 /\ m.lastY < g.jetBands[b].y /\ y >= g.jetBands[b].y}
  IN IF /\ g.phase = "running" /\ Len(g.jetBands) > 0
        /\ y > m.lastY /\ nowMs >= m.jetCooldownUntilMs
        /\ hits # {}
     THEN CHOOSE b \in hits : \A c \in hits : b <= c
     ELSE 0

\* The band (1-based) the jet-band loop acts on for marble m arriving at y, or 0.
BandHit(g, m, y, nowMs) ==
  LET elapsedMs == nowMs - g.startedAtMs
      hits == {b \in DOMAIN g.jetBands :
                 /\ ~(elapsedMs >= g.jetBands[b].activeUntilMs)
                 /\ b \notin m.jetMask
                 /\ m.lastY < g.jetBands[b].y /\ y >= g.jetBands[b].y}
  IN IF /\ g.phase = "running" /\ Len(g.jetBands) > 0
        /\ y > m.lastY /\ nowMs >= m.jetCooldownUntilMs
        /\ hits # {}
     THEN CHOOSE b \in hits : \A c \in hits : b <= c
     ELSE 0

\* The jet-band block whose bounce never marks the band, the first one included
jetBandStep_mut(g, m, nowMs, jackpotDraw) ==
  LET b == BandHit(g, m, m.body.y, nowMs)
      jackpotPass == b # 1 /\ jackpotDraw
  IN IF b = 0 THEN m
     ELSE IF jackpotPass
     THEN [m EXCEPT !.jetMask = @ \cup {b},
                    !.jetCooldownUntilMs = nowMs + Msec(180)]
     ELSE [m EXCEPT !.body = [x |-> m.body.x, y |-> g.jetBands[b].y - BOUNCE_BACK],
                    !.bounces[b] = @ + 1,
                    !.jetCooldownUntilMs = nowMs + Msec(260)]

\* The jet-band block of the scan: the marble after it (body, jetMask, cooldown).
\* bounces[b] counts the bounce-back calls (body.setTranslation at the band's
\* clamped depth) band b has made on the marble.
jetBandStep(g, m, nowMs, jackpotDraw) ==
  LET b == BandHit(g, m, m.body.y, nowMs)
      isFirstBand == b = 1
      jackpotPass == ~isFirstBand /\ jackpotDraw
  IN IF b = 0 THEN m
     ELSE IF jackpotPass
     THEN [m EXCEPT !.jetMask = @ \cup {b},
                    !.jetCooldownUntilMs = nowMs + Msec(180)]
     ELSE [m EXCEPT !.body = [x |-> m.body.x, y |-> g.jetBands[b].y - BOUNCE_BACK],
                    !.bounces[b] = @ + 1,
                    !.jetMask = IF isFirstBand THEN @ \cup {b} ELSE @,
                    !.jetCooldownUntilMs = nowMs + Msec(260)]

RescueSpawn == [x |-> 640, y |-> 100]

\* The anti-stuck block whose rescue never comes a second time: after the kick
\* the marble is left where it is
antiStuckStep_mut(g, m, nowMs, speed) ==
  LET progressed == m.progressY - m.lastProgressY
  IN IF progressed > 6
     THEN [m EXCEPT !.lastProgressY = m.progressY, !.lastMovedAtMs = nowMs,
                    !.rescueCount = 0, !.rescueCooldownUntilMs = 0]
     ELSE IF /\ g.phase = "running" /\ nowMs >= m.rescueCooldownUntilMs
             /\ nowMs - m.lastMovedAtMs > Msec(1400) /\ speed < 28
             /\ m.rescueCount = 0
     THEN [m EXCEPT !.rescueCooldownUntilMs = nowMs + Msec(1800),
                    !.lastMovedAtMs = nowMs, !.rescueCount = 1]
     ELSE IF /\ nowMs >= m.stuckCooldownUntilMs
             /\ nowMs - m.lastMovedAtMs > Msec(2800) /\ speed < 60
     THEN [m EXCEPT !.stuckCooldownUntilMs = nowMs + Sec(2), !.lastMovedAtMs = nowMs]
     ELSE m

\* The anti-stuck block whose progress branch leaves rescueCount as it is
antiStuckStep_noReset(g, m, nowMs, speed) ==
  LET progressed == m.progressY - m.lastProgressY
  IN IF progressed > 6
     THEN [m EXCEPT !.lastProgressY = m.progressY, !.lastMovedAtMs = nowMs,
                    !.rescueCooldownUntilMs = 0]
     ELSE IF /\ g.phase = "running" /\ nowMs >= m.rescueCooldownUntilMs
             /\ nowMs - m.lastMovedAtMs > Msec(1400) /\ speed < 28
     THEN IF m.rescueCount = 0
          THEN [m EXCEPT !.rescueCooldownUntilMs = nowMs + Msec(1800),
                         !.lastMovedAtMs = nowMs, !.rescueCount = 1]
          ELSE [m EXCEPT !.rescueCooldownUntilMs = nowMs + Msec(1800),
                         !.lastMovedAtMs = nowMs, !.rescueCount = 0,
                         !.body = RescueSpawn]
     ELSE IF /\ nowMs >= m.stuckCooldownUntilMs
             /\ nowMs - m.lastMovedAtMs > Msec(2800) /\ speed < 60
     THEN [m EXCEPT !.stuckCooldownUntilMs = nowMs + Sec(2), !.lastMovedAtMs = nowMs]
     ELSE m

\* The anti-stuck block of the scan, for a marble whose progress is up to date.
antiStuckStep(g, m, nowMs, speed) ==
  LET progressed == m.progressY - m.lastProgressY
  IN IF progressed > 6
     THEN [m EXCEPT !.lastProgressY = m.progressY, !.lastMovedAtMs = nowMs,
                    !.rescueCount = 0, !.rescueCooldownUntilMs = 0]
     ELSE IF /\ g.phase = "running" /\ nowMs >= m.rescueCooldownUntilMs
             /\ nowMs - m.lastMovedAtMs > Msec(1400) /\ speed < 28
     THEN IF m.rescueCount = 0
          THEN [m EXCEPT !.rescueCooldownUntilMs = nowMs + Msec(1800),
                         !.lastMovedAtMs = nowMs, !.rescueCount = 1]
          ELSE [m EXCEPT !.rescueCooldownUntilMs = nowMs + Msec(1800),
                         !.lastMovedAtMs = nowMs, !.rescueCount = 0,
                         !.body = RescueSpawn]
     ELSE IF /\ nowMs >= m.stuckCooldownUntilMs
             /\ nowMs - m.lastMovedAtMs > Msec(2800) /\ speed < 60
     THEN [m EXCEPT !.stuckCooldownUntilMs = nowMs + Sec(2), !.lastMovedAtMs = nowMs]
     ELSE m

\* The scan's running values: s.g the game, the counters, the top three (0: null)
\* and whether the hard finish check returned from stepOnce.
ScanStart(g) ==
  [g |-> g, aliveCount |-> 0, leaderProgress |-> NEGATIVE_INFINITY,
   top1 |-> 0, top2 |-> 0, top3 |-> 0, returned |-> FALSE]

trackTop3(s, i) ==
  LET pr(j) == s.g.marbles[j].progressY
  IN IF s.top1 = 0 \/ pr(i) > pr(s.top1)
     THEN [s EXCEPT !.top3 = s.top2, !.top2 = s.top1, !.top1 = i]
     ELSE IF s.top2 = 0 \/ pr(i) > pr(s.top2)
     THEN [s EXCEPT !.top3 = s.top2, !.top2 = i]
     ELSE IF s.top3 = 0 \/ pr(i) > pr(s.top3)
     THEN [s EXCEPT !.top3 = i]
     ELSE s

\* progress taken from the depth alone, without Math.max
progressUpdate_mut(g, m) ==
  LET y == m.body.y
      yForProgress == IF g.phase = "running" THEN Min(y, CUP_Y - 1) ELSE y
  IN [m EXCEPT !.progressY = yForProgress, !.lastY = y]

\* The progress update without the cap below the cup
progressUpdate_uncapped(g, m) ==
  LET y == m.body.y
  IN [m EXCEPT !.progressY = Max(m.progressY, y), !.lastY = y]

progressUpdate(g, m) ==
  LET y == m.body.y
      yForProgress == IF g.phase = "running" THEN Min(y, CUP_Y - 1) ELSE y
  IN [m EXCEPT !.progressY = Max(m.progressY, yForProgress), !.lastY = y]

\* One iteration of `for (const m of this.marbles)` in stepOnce.
scanMarble(s, i, nowMs, inp) ==
  LET g == s.g
      m0 == g.marbles[i]
      afterJetBands(m1) ==
        LET x == m1.body.x
            y == m1.body.y
            g1 == [g EXCEPT !.marbles[i] = m1]
        IN IF y > OUT_OF_BOUNDS_Y \/ x < -OUT_OF_BOUNDS_X_PAD
              \/ x > WORLD_W + OUT_OF_BOUNDS_X_PAD
           THEN [s EXCEPT !.g = eliminate(g1, i, nowMs, "fall")]
           ELSE IF g.phase = "running"
                   /\ Dist2(m1.body, CUP_X, CUP_Y) < CUP_HARD_R * CUP_HARD_R
           THEN [s EXCEPT !.g = onCupEntry(g1, i, nowMs), !.returned = TRUE]
           ELSE
             LET m2 == progressUpdate(g, m1)
                 s2 == trackTop3([s EXCEPT !.g = [g EXCEPT !.marbles[i] = m2],
                                           !.aliveCount = @ + 1,
                                           !.leaderProgress = Max(@, m2.progressY)], i)
                 m3 == antiStuckStep(g, m2, nowMs, inp.speed[i])
             IN [s2 EXCEPT !.g.marbles[i] = m3]
  IN IF m0.isEliminated THEN s
     ELSE afterJetBands(jetBandStep(g, m0, nowMs, i \in inp.jackpot))

\* The scan reads and writes the body of every agent it does not skip.
scanUse(s, i) ==
  IF s.g.marbles[i].isEliminated THEN s ELSE [s EXCEPT !.g = useBody(s.g, {i})]

RECURSIVE scanMarbles(_, _, _, _)
scanMarbles(s, i, nowMs, inp) ==
  IF i > Len(s.g.marbles) \/ s.returned THEN s
  ELSE scanMarbles(scanMarble(scanUse(s, i), i, nowMs, inp), i + 1, nowMs, inp)

(***************************************************************************)
(* Checkpoint cut                                                          *)
(***************************************************************************)
CUT_MIN_COUNT == 5
CUT_MIN_ALIVE == 50

\* Position (1-based) of marble i in alive.slice().sort((a, b) => a.progressY - b.progressY)
RankAsc(g, i) ==
  1 + Cardinality({j \in Alive(g) :
        \/ g.marbles[j].progressY < g.marbles[i].progressY
        \/ g.marbles[j].progressY = g.marbles[i].progressY /\ j < i})

\* the cut taken from the head of the race
cutVictims_mut(g, cutCount) == {i \in Alive(g) : RankDesc(g, i) <= cutCount}

\* sorted.slice(0, cutCount)
cutVictims(g, cutCount) == {i \in Alive(g) : RankAsc(g, i) <= cutCount}

RECURSIVE eliminateEach(_, _, _, _)
eliminateEach(g, victims, nowMs, reason) ==
  IF victims = {} THEN g
  ELSE LET v == CHOOSE v \in victims : \A w \in victims : v <= w
       IN eliminateEach(eliminate(g, v, nowMs, reason), victims \ {v}, nowMs, reason)

applyCut(g, cutCount, nowMs) ==
  IF cutCount < CUT_MIN_COUNT THEN g
  ELSE IF Cardinality(Alive(g)) < CUT_MIN_ALIVE THEN g
  ELSE eliminateEach(g, cutVictims(g, cutCount), nowMs, "cut")

\* The block that executes a cut without consuming its checkpoint
checkpointCutStep_mut(g, nowMs, aliveCount, leaderProgress) ==
  IF g.cutState # Null
  THEN IF nowMs >= g.cutState.endsAtMs
       THEN [applyCut(g, g.cutState.cutCount, nowMs) EXCEPT !.cutState = Null]
       ELSE g
  ELSE IF g.checkpointIndex < Len(checkpointsY)
  THEN IF leaderProgress >= checkpointsY[g.checkpointIndex + 1]
       THEN LET cutCount == aliveCount \div 10
            IN IF cutCount >= CUT_MIN_COUNT
               THEN [g EXCEPT
                      !.cutState = [checkpointNumber |-> g.checkpointIndex + 1,
                                    endsAtMs |-> nowMs + Sec(3),
                                    cutCount |-> cutCount],
                      !.camera.shakeUntilMs = nowMs + Msec(180),
                      !.camera.shakeAmp = 4]
               ELSE [g EXCEPT !.checkpointIndex = @ + 1]
       ELSE g
  ELSE g

\* The "Checkpoint cut" block of stepOnce, with the scan's aliveCount and leaderProgress.
checkpointCutStep(g, nowMs, aliveCount, leaderProgress) ==
  IF g.cutState # Null
  THEN IF nowMs >= g.cutState.endsAtMs
       THEN [applyCut(g, g.cutState.cutCount, nowMs) EXCEPT
               !.cutState = Null, !.checkpointIndex = @ + 1]
       ELSE g
  ELSE IF g.checkpointIndex < Len(checkpointsY)
  THEN IF leaderProgress >= checkpointsY[g.checkpointIndex + 1]
       THEN LET cutCount == aliveCount \div 10
            IN IF cutCount >= CUT_MIN_COUNT
               THEN [g EXCEPT
                      !.cutState = [checkpointNumber |-> g.checkpointIndex + 1,
                                    endsAtMs |-> nowMs + Sec(3),
                                    cutCount |-> cutCount],
                      !.camera.shakeUntilMs = nowMs + Msec(180),
                      !.camera.shakeAmp = 4]
               ELSE [g EXCEPT !.checkpointIndex = @ + 1]
       ELSE g
  ELSE g

(***************************************************************************)
(* Golden moment                                                           *)
(***************************************************************************)
\* maybeStartSlowMo without its cooldown test
maybeStartSlowMo_mut(g, nowMs, top3) ==
  LET finalStartY == CUP_Y - 520
      contenders == {i \in top3 : i # 0 /\ ~g.marbles[i].isEliminated}
      near == {i \in contenders : g.marbles[i].progressY >= finalStartY}
      ys == {g.marbles[i].body.y : i \in near}
      minY == CHOOSE y \in ys : \A z \in ys : y <= z
      maxY == CHOOSE y \in ys : \A z \in ys : y >= z
      closeToCup == \E i \in near : Dist2(g.marbles[i].body, CUP_X, CUP_Y) < 240 * 240
  IN IF g.timeScale # 10 THEN g
     ELSE IF Len(g.cupEntries) >= TOP10_FINISHERS_TARGET THEN g
     ELSE IF Cardinality(near) < 2 THEN g
     ELSE IF maxY - minY > 70 THEN g
     ELSE IF ~closeToCup THEN g
     ELSE [g EXCEPT !.timeScale = 2,
                    !.slowMoUntilMs = nowMs + Sec(3),
                    !.slowMoCooldownUntilMs = nowMs + Sec(7)]

maybeStartSlowMo(g, nowMs, top3) ==
  LET finalStartY == CUP_Y - 520
      contenders == {i \in top3 : i # 0 /\ ~g.marbles[i].isEliminated}
      near == {i \in contenders : g.marbles[i].progressY >= finalStartY}
      ys == {g.marbles[i].body.y : i \in near}
      minY == CHOOSE y \in ys : \A z \in ys : y <= z
      maxY == CHOOSE y \in ys : \A z \in ys : y >= z
      closeToCup == \E i \in near : Dist2(g.marbles[i].body, CUP_X, CUP_Y) < 240 * 240
  IN IF nowMs < g.slowMoCooldownUntilMs THEN g
     ELSE IF g.timeScale # 10 THEN g
     ELSE IF Len(g.cupEntries) >= TOP10_FINISHERS_TARGET THEN g
     ELSE IF Cardinality(near) < 2 THEN g
     ELSE IF maxY - minY > 70 THEN useBody(g, near)
     ELSE IF ~closeToCup THEN useBody(g, near)
     ELSE [useBody(g, near) EXCEPT !.timeScale = 2,
                    !.slowMoUntilMs = nowMs + Sec(3),
                    !.slowMoCooldownUntilMs = nowMs + Sec(7)]

physicsStep(g, moves) ==
  [g EXCEPT !.marbles = [i \in DOMAIN g.marbles |->
                           IF i \in DOMAIN moves
                           THEN [g.marbles[i] EXCEPT !.body = moves[i]]
                           ELSE g.marbles[i]]]

\* The end of stepOnce, after the scan loop: s is what the loop left (the game,
\* whether it returned, the alive count, the leader and the first three).
stepOnceAfterScan(s, nowMs) ==
  LET g4 == checkpointCutStep(s.g, nowMs, s.aliveCount, s.leaderProgress)
  IN IF s.returned THEN s.g
     ELSE IF g4.phase = "running" /\ g4.timeScale = 10
     THEN maybeStartSlowMo(g4, nowMs, {s.top1, s.top2, s.top3})
     ELSE g4

\* stepOnce whose slow-motion expiry also ends a fast forward
stepOnceScan_mut(g, nowMs, inp) ==
  LET g1 == IF g.timeScale # 10 /\ nowMs >= g.slowMoUntilMs
            THEN [g EXCEPT !.timeScale = 10] ELSE g
      g2 == physicsStep(g1, inp.moves)
      events == EventQueue(g1, inp.moves,
                           IF inp.descending THEN Len(g1.marbles) ELSE 1,
                           inp.descending)
      g3 == drainCollisionEvents(g2, events, 1, nowMs)
  IN scanMarbles(ScanStart(g3), 1, nowMs, inp)

\* stepOnce up to the end of its scan loop: the slow-motion expiry, world.step,
\* the drained collision events and the scan of the marbles.
stepOnceScan(g, nowMs, inp) ==
  LET g1 == IF g.timeScale < 10 /\ nowMs >= g.slowMoUntilMs
            THEN [g EXCEPT !.timeScale = 10] ELSE g
      g2 == physicsStep(g1, inp.moves)
      events == EventQueue(g1, inp.moves,
                           IF inp.descending THEN Len(g1.marbles) ELSE 1,
                           inp.descending)
      g3 == drainCollisionEvents(g2, events, 1, nowMs)
  IN scanMarbles(ScanStart(g3), 1, nowMs, inp)

stepOnce(g, nowMs, inp) ==
  IF g.world = Null THEN g
  ELSE stepOnceAfterScan(stepOnceScan(g, nowMs, inp), nowMs)

(***************************************************************************)
(* start, destroy                                                          *)
(***************************************************************************)
\* destroy() that leaves the camera and the UI callback as they are
destroy_mut(g) ==
  [IdleGame EXCEPT !.startedAtMs = g.startedAtMs, !.elapsedMs = g.elapsedMs,
                   !.accumulatorMs = g.accumulatorMs, !.lastTickMs = g.lastTickMs,
                   !.lastUiEmitMs = g.lastUiEmitMs, !.emitted = g.emitted,
                   !.camera = g.camera, !.onUi = g.onUi]

\* destroy() assigns every field but the clock fields (startedAtMs, elapsedMs,
\* accumulatorMs, lastTickMs, lastUiEmitMs), which keep their values.
destroy(g) ==
  [IdleGame EXCEPT !.startedAtMs = g.startedAtMs, !.elapsedMs = g.elapsedMs,
                   !.accumulatorMs = g.accumulatorMs, !.lastTickMs = g.lastTickMs,
                   !.lastUiEmitMs = g.lastUiEmitMs, !.emitted = g.emitted]

\* opts.participants[i].name, a sequence of characters: "a", "ab", then "c"s.
ParticipantName(i) ==
  IF i = 1 THEN <<"a">> ELSE IF i = 2 THEN <<"a", "b">> ELSE <<"c">>

\* computeSpawnPositions: row r lies at startY + (r + 0.5) * spacing * 0.9
\* = 40 + (r + 0.5) * 15.12, rounded to a pixel; 52 columns per row.
SPAWN_COLS == 52
SpawnPos(row) == [x |-> CUP_X, y |-> 40 + ((2 * row + 1) * 1512 + 100) \div 200]

\* impulses counts the writes of the body's velocity (setLinvel, applyImpulse)
\* the modifier handlers made, boost is the response of the marble's last
\* boost ("none": not boosted yet).
NewMarble(i, pos, t) ==
  [name |-> ParticipantName(i), body |-> pos, progressY |-> pos.y, lastProgressY |-> pos.y, lastY |-> pos.y,
   jetMask |-> {}, bounces |-> [b \in DOMAIN JetBands |-> 0],
   jetCooldownUntilMs |-> 0, lastMovedAtMs |-> t,
   stuckCooldownUntilMs |-> 0, rescueCount |-> 0, rescueCooldownUntilMs |-> 0,
   isEliminated |-> FALSE, warpUsed |-> FALSE,
   bumpedAtMs |-> 0, boostCooldownUntilMs |-> 0, kickerCooldownUntilMs |-> 0,
   magnetUntilMs |-> 0, magnetX |-> 0, magnetY |-> 0, impulses |-> 0,
   boost |-> "none"]

\* start() that does not begin with destroy()
start_mut(g, n, minRoundMs, rows, t) ==
  emitUi([g EXCEPT
           !.phase = "running",
           !.onUi = TRUE,
           !.finishState = Null,
           !.winner = Null,
           !.winnerToastUntilMs = 0,
           !.cupEntries = <<>>,
           !.cupEntryById = {},
           !.eliminatedBy = [fall |-> 0, cut |-> 0],
           !.startedAtMs = t,
           !.minRoundEndsAtMs = t + clamp(minRoundMs, MIN_ROUND_LO_MS, MIN_ROUND_HI_MS),
           !.elapsedMs = 0,
           !.accumulatorMs = 0,
           !.lastTickMs = t,
           !.lastUiEmitMs = 0,
           !.world = [bodies |-> 1..n, colliders |-> 1..n,
                      removeCalls |-> [i \in 1..n |-> 0]],
           !.worldContainer = TRUE,
           !.checkpointIndex = 0,
           !.cutState = Null,
           !.timeScale = 10,
           !.slowMoUntilMs = 0,
           !.slowMoCooldownUntilMs = 0,
           !.fastForwardOn = FALSE,
           !.bottom30MaxProgress = NEGATIVE_INFINITY,
           !.top10MinProgress = POSITIVE_INFINITY,
           !.top30MinProgress = POSITIVE_INFINITY,
           !.jetBands = JetBands,
           !.kickerByHandle = Kickers,
           !.magnetByHandle = MagnetPits,
           !.bombByHandle = Bombs,
           !.slowByHandle = SlowPads,
           !.bumperFx = <<>>,
           !.lastBumperFxAtMs = 0,
           !.marbles = [i \in 1..n |-> NewMarble(i, SpawnPos(rows[i]), t)],
           !.marblesByCollider = 1..n], TRUE, t)

\* start(opts) at time t, with opts.participants of length n, opts.minRoundMs, and
\* rows[i] the spawn row the shuffle gave participant i: destroy(), the
\* assignments, buildMap and spawnMarbles, then emitUi(true).
start(g, n, minRoundMs, rows, t) ==
  emitUi([destroy(g) EXCEPT
           !.phase = "running",
           !.onUi = TRUE,
           !.finishState = Null,
           !.winner = Null,
           !.winnerToastUntilMs = 0,
           !.cupEntries = <<>>,
           !.cupEntryById = {},
           !.eliminatedBy = [fall |-> 0, cut |-> 0],
           !.startedAtMs = t,
           !.minRoundEndsAtMs = t + clamp(minRoundMs, MIN_ROUND_LO_MS, MIN_ROUND_HI_MS),
           !.elapsedMs = 0,
           !.accumulatorMs = 0,
           !.lastTickMs = t,
           !.lastUiEmitMs = 0,
           !.world = [bodies |-> 1..n, colliders |-> 1..n,
                      removeCalls |-> [i \in 1..n |-> 0]],
           !.worldContainer = TRUE,
           !.checkpointIndex = 0,
           !.cutState = Null,
           !.timeScale = 10,
           !.slowMoUntilMs = 0,
           !.slowMoCooldownUntilMs = 0,
           !.fastForwardOn = FALSE,
           !.bottom30MaxProgress = NEGATIVE_INFINITY,
           !.top10MinProgress = POSITIVE_INFINITY,
           !.top30MinProgress = POSITIVE_INFINITY,
           !.jetBands = JetBands,
           !.kickerByHandle = Kickers,
           !.magnetByHandle = MagnetPits,
           !.bombByHandle = Bombs,
           !.slowByHandle = SlowPads,
           !.bumperFx = <<>>,
           !.lastBumperFxAtMs = 0,
           !.marbles = [i \in 1..n |-> NewMarble(i, SpawnPos(rows[i]), t)],
           !.marblesByCollider = 1..n], TRUE, t)

\* The shuffles considered: the overflow of the first row sits at the end or at the
\* start of the participant list.
SpawnRows(n) ==
  { [i \in 1..n |-> IF i > SPAWN_COLS THEN 1 ELSE 0],
    [i \in 1..n |-> IF i <= n - SPAWN_COLS THEN 1 ELSE 0] }

(***************************************************************************)
(* The camera.  Positions are whole pixels; the smooth follow's product by *)
(* 0.12 is rounded down to a pixel.  The shake only offsets the container  *)
(* (worldContainer.x, .y), never camera.x or camera.y, and is left out.    *)
(***************************************************************************)
\* sorted.find(m => m.progressY - p.y < 1200) ?? sorted[0], for a non-empty alive set
CameraLeader(g) ==
  LET near == {i \in Alive(g) : g.marbles[i].progressY - g.marbles[i].body.y < 1200}
  IN IF near = {} THEN FirstDesc(g, Alive(g)) ELSE FirstDesc(g, near)

\* updateCamera with a manual camera that follows the leader like the auto camera
updateCamera_mut(g, nowMs) ==
  IF ~g.worldContainer THEN g
  ELSE IF Alive(g) = {} THEN g
  ELSE
    LET endManual(c0) ==
          IF c0.mode = "manual" /\ nowMs >= c0.manualUntilMs
          THEN IF c0.peekReturn # Null /\ nowMs >= c0.peekUntilMs
               THEN [c0 EXCEPT !.peekReturn = Null, !.peekUntilMs = 0,
                               !.mode = c0.peekReturn.mode,
                               !.x = c0.peekReturn.x, !.y = c0.peekReturn.y,
                               !.focusUntilMs = c0.peekReturn.focusUntilMs,
                               !.focusId = c0.peekReturn.focusId,
                               !.manualUntilMs = c0.peekReturn.manualUntilMs]
               ELSE [c0 EXCEPT !.mode = "auto"]
          ELSE c0
        endFocus(c1) ==
          IF c1.mode = "focus" /\ nowMs >= c1.focusUntilMs
          THEN [c1 EXCEPT !.mode = "auto", !.focusUntilMs = 0, !.focusId = 0]
          ELSE c1
        dropLostFocus(c2) ==
          IF c2.mode = "focus" /\ c2.focusId # 0 /\ c2.focusId \notin Alive(g)
          THEN [c2 EXCEPT !.mode = "auto", !.focusUntilMs = 0, !.focusId = 0]
          ELSE c2
        follow(c3) ==
          LET target == IF c3.mode = "focus" /\ c3.focusId # 0
                        THEN g.marbles[c3.focusId].body
                        ELSE IF c3.mode = "focus" THEN [x |-> WORLD_W \div 2, y |-> 0]
                        ELSE g.marbles[CameraLeader(g)].body
              desiredY == clamp(target.y - (SCREEN_H * CAMERA_Y_ANCHOR) \div 100,
                                0, WORLD_H - SCREEN_H)
              desiredX == clamp(target.x - SCREEN_W \div 2, 0, WORLD_W - SCREEN_W)
              lerp == IF c3.mode = "manual" THEN 100 ELSE 12
          IN [g EXCEPT !.camera = [c3 EXCEPT
                                     !.y = c3.y + ((desiredY - c3.y) * lerp) \div 100,
                                     !.x = c3.x + ((desiredX - c3.x) * lerp) \div 100]]
    IN follow(dropLostFocus(endFocus(endManual(g.camera))))

updateCamera(g, nowMs) ==
  IF ~g.worldContainer THEN g
  ELSE IF Alive(g) = {} THEN g
  ELSE
    LET endManual(c0) ==
          IF c0.mode = "manual" /\ nowMs >= c0.manualUntilMs
          THEN IF c0.peekReturn # Null /\ nowMs >= c0.peekUntilMs
               THEN [c0 EXCEPT !.peekReturn = Null, !.peekUntilMs = 0,
                               !.mode = c0.peekReturn.mode,
                               !.x = c0.peekReturn.x, !.y = c0.peekReturn.y,
                               !.focusUntilMs = c0.peekReturn.focusUntilMs,
                               !.focusId = c0.peekReturn.focusId,
                               !.manualUntilMs = c0.peekReturn.manualUntilMs]
               ELSE [c0 EXCEPT !.mode = "auto"]
          ELSE c0
        endFocus(c1) ==
          IF c1.mode = "focus" /\ nowMs >= c1.focusUntilMs
          THEN [c1 EXCEPT !.mode = "auto", !.focusUntilMs = 0, !.focusId = 0]
          ELSE c1
        \* focus whose target is gone (finished or eliminated) falls back to auto
        dropLostFocus(c2) ==
          IF c2.mode = "focus" /\ c2.focusId # 0 /\ c2.focusId \notin Alive(g)
          THEN [c2 EXCEPT !.mode = "auto", !.focusUntilMs = 0, !.focusId = 0]
          ELSE c2
        follow(c3) ==
          LET target == IF c3.mode = "manual"
                        THEN [x |-> c3.x + SCREEN_W \div 2,
                              y |-> c3.y + (SCREEN_H * CAMERA_Y_ANCHOR) \div 100]
                        ELSE IF c3.mode = "focus" /\ c3.focusId # 0
                        THEN g.marbles[c3.focusId].body
                        ELSE IF c3.mode = "focus" THEN [x |-> WORLD_W \div 2, y |-> 0]
                        ELSE g.marbles[CameraLeader(g)].body
              desiredY == clamp(target.y - (SCREEN_H * CAMERA_Y_ANCHOR) \div 100,
                                0, WORLD_H - SCREEN_H)
              desiredX == clamp(target.x - SCREEN_W \div 2, 0, WORLD_W - SCREEN_W)
              lerp == IF c3.mode = "manual" THEN 100 ELSE 12
              \* the bodies read for the target: the focused agent's, or
              \* those of the alive agents the leader is looked for among
              read == IF c3.mode = "manual" THEN {}
                      ELSE IF c3.mode = "focus" /\ c3.focusId # 0 THEN {c3.focusId}
                      ELSE IF c3.mode = "focus" THEN {}
                      ELSE Alive(g)
          IN [useBody(g, read) EXCEPT !.camera = [c3 EXCEPT
                                     !.y = c3.y + ((desiredY - c3.y) * lerp) \div 100,
                                     !.x = c3.x + ((desiredX - c3.x) * lerp) \div 100]]
    IN follow(dropLostFocus(endFocus(endManual(g.camera))))

(***************************************************************************)
(* Camera requests                                                         *)
(***************************************************************************)
panCameraBy(g, dx, dy, t) ==
  IF ~g.worldContainer THEN g
  ELSE [g EXCEPT
         !.camera.mode = "manual",
         !.camera.focusId = 0,
         !.camera.focusUntilMs = 0,
         !.camera.peekUntilMs = 0,
         !.camera.peekReturn = Null,
         !.camera.manualUntilMs = t + Sec(3),
         !.camera.x = clamp(@ + dx, 0, WORLD_W - SCREEN_W),
         !.camera.y = clamp(@ + dy, 0, WORLD_H - SCREEN_H)]

\* jumpCameraTo that keeps an earlier content of the return slot.
jumpCameraTo_mut(g, x, y, durationMs, t) ==
  IF ~g.worldContainer THEN g
  ELSE [g EXCEPT
         !.camera.peekUntilMs = t + durationMs,
         !.camera.peekReturn =
             IF g.camera.peekReturn # Null THEN g.camera.peekReturn
             ELSE [mode |-> g.camera.mode, x |-> g.camera.x,
                   y |-> g.camera.y,
                   focusUntilMs |-> g.camera.focusUntilMs,
                   focusId |-> g.camera.focusId,
                   manualUntilMs |-> g.camera.manualUntilMs],
         !.camera.mode = "manual",
         !.camera.focusId = 0,
         !.camera.focusUntilMs = 0,
         !.camera.manualUntilMs = t + durationMs,
         !.camera.x = clamp(x, 0, WORLD_W - SCREEN_W),
         !.camera.y = clamp(y, 0, WORLD_H - SCREEN_H)]

jumpCameraTo(g, x, y, durationMs, t) ==
  IF ~g.worldContainer THEN g
  ELSE [g EXCEPT
         !.camera.peekUntilMs = t + durationMs,
         !.camera.peekReturn = [mode |-> g.camera.mode, x |-> g.camera.x,
                                y |-> g.camera.y,
                                focusUntilMs |-> g.camera.focusUntilMs,
                                focusId |-> g.camera.focusId,
                                manualUntilMs |-> g.camera.manualUntilMs],
         !.camera.mode = "manual",
         !.camera.focusId = 0,
         !.camera.focusUntilMs = 0,
         !.camera.manualUntilMs = t + durationMs,
         !.camera.x = clamp(x, 0, WORLD_W - SCREEN_W),
         !.camera.y = clamp(y, 0, WORLD_H - SCREEN_H)]

\* name.trim(): a name is a sequence of characters, " " the white space.
RECURSIVE trimStart(_)
trimStart(name) ==
  IF name # <<>> /\ Head(name) = " " THEN trimStart(Tail(name)) ELSE name
RECURSIVE trimEnd(_)
trimEnd(name) ==
  IF name # <<>> /\ name[Len(name)] = " "
  THEN trimEnd(SubSeq(name, 1, Len(name) - 1)) ELSE name
trim(name) == trimEnd(trimStart(name))

\* hay.includes(needle)
includes(hay, needle) ==
  \E k \in 1..(Len(hay) - Len(needle) + 1) : SubSeq(hay, k, k + Len(needle) - 1) = needle

\* marbles.find(pred): the first marble of the list that satisfies it, 0 for undefined
FirstMarble(g, S) == IF S = {} THEN 0 ELSE CHOOSE i \in S : \A j \in S : i <= j

\* The target focusByName settles on (exact ?? partial), 0 when it returns false.
focusTarget(g, name) ==
  LET trimmed == trim(name)
      exact == FirstMarble(g, {i \in Alive(g) : g.marbles[i].name = trimmed})
      partial == IF exact # 0 THEN exact
                 ELSE FirstMarble(g, {i \in Alive(g) : includes(g.marbles[i].name, trimmed)})
  IN IF trimmed = <<>> THEN 0 ELSE partial

\* focusByName that takes the first match of the list, eliminated or not
focusByName_mut(g, name, durationMs, t) ==
  LET trimmed == trim(name)
      all == DOMAIN g.marbles
      exact == FirstMarble(g, {i \in all : g.marbles[i].name = trimmed})
      target == IF exact # 0 THEN exact
                ELSE FirstMarble(g, {i \in all : includes(g.marbles[i].name, trimmed)})
  IN IF trimmed = <<>> \/ target = 0 THEN g
     ELSE [g EXCEPT
            !.camera.peekUntilMs = 0,
            !.camera.peekReturn = Null,
            !.camera.mode = "focus",
            !.camera.focusId = target,
            !.camera.focusUntilMs = t + durationMs,
            !.camera.shakeUntilMs = t + Msec(200),
            !.camera.shakeAmp = 5]

\* The game after focusByName(name, durationMs); it returns focusTarget # 0.
focusByName(g, name, durationMs, t) ==
  LET target == focusTarget(g, name)
  IN IF target = 0 THEN g
     ELSE [g EXCEPT
            !.camera.peekUntilMs = 0,
            !.camera.peekReturn = Null,
            !.camera.mode = "focus",
            !.camera.focusId = target,
            !.camera.focusUntilMs = t + durationMs,
            !.camera.shakeUntilMs = t + Msec(200),
            !.camera.shakeAmp = 5]

(***************************************************************************)
(* onTick                                                                  *)
(***************************************************************************)
\* onTick whose frame time is not clamped
onTickBegin_mut(g, t) ==
  IF g.world = Null \/ ~g.worldContainer THEN g
  ELSE IF g.phase # "running" THEN g
  ELSE [g EXCEPT !.lastTickMs = t,
                 !.accumulatorMs = @ + (t - g.lastTickMs)]

\* onTick up to its while loop, at t = performance.now().
onTickBegin(g, t) ==
  IF g.world = Null \/ ~g.worldContainer THEN g
  ELSE IF g.phase # "running" THEN g
  ELSE [g EXCEPT !.lastTickMs = t,
                 !.accumulatorMs = @ + clamp(t - g.lastTickMs, 0, FRAME_CLAMP_MS)]

loopCondition(g) == g.accumulatorMs >= FIXED_STEP_MS /\ g.phase = "running"

\* One iteration of the while loop.
onTickStep(g, t, inp) ==
  [stepOnce(g, t, inp) EXCEPT !.accumulatorMs = @ - FIXED_STEP_MS,
                              !.elapsedMs = @ + FIXED_STEP_MS]

\* render that places the display of every agent at its body, eliminated or not
render_mut(g, nowMs) == useBody(g, DOMAIN g.marbles)

\* render: the display of an agent that is not eliminated is placed at its
\* body's translation; an eliminated agent only fades out.
render(g, nowMs) == useBody(g, Alive(g))

\* onTick whose tail calls endRound where it should begin the finish sequence
onTickEnd_noStop(g, t) ==
  IF g.phase # "running" THEN g
  ELSE
    LET afterEmit(g1) ==
          IF t >= g1.minRoundEndsAtMs /\ Len(g1.cupEntries) > 0
          THEN endRound(g1, t)
          ELSE g1
    IN afterEmit(emitUi(updateCamera(g, t), FALSE, t))

\* onTick whose tail ends the round as soon as the minimum duration is over
onTickEnd_mut(g, t) ==
  IF g.phase # "running" THEN g
  ELSE
    LET g1 == emitUi(updateCamera(g, t), FALSE, t)
    IN IF t >= g1.minRoundEndsAtMs
       THEN [g1 EXCEPT !.phase = "finished", !.finishState = Null]
       ELSE g1

\* onTick after its while loop.
onTickEnd(g, t) ==
  IF g.phase # "running" THEN g
  ELSE
    LET afterEmit(g1) ==
          IF g1.finishState # Null
          THEN IF t >= g1.finishState.stopAtMs THEN endRound(g1, t) ELSE g1
          ELSE IF t >= g1.minRoundEndsAtMs /\ Len(g1.cupEntries) > 0
          THEN beginFinishSequence(g1, t)
          ELSE g1
    IN afterEmit(emitUi(render(updateCamera(g, t), t), FALSE, t))

(***************************************************************************)
(* useMarblesEngine (hooks/use-marbles-engine.ts)                          *)
(***************************************************************************)
\* The hook before its effects ran: pixiAppRef, pixiRef, rapierRef and gameRef
\* are null (FALSE), phase is 'setup', uiSnap is null.
InitClient ==
  [app |-> FALSE, PIXI |-> FALSE, R |-> FALSE, game |-> FALSE,
   phase |-> "setup", uiSnap |-> Null, orphans |-> 0]

mapGamePhaseToClientPhase(phase) ==
  IF phase = "running" THEN "running"
  ELSE IF phase = "finished" THEN "finished"
  ELSE "setup"

\* The onUi callback start() registers, run for each snapshot the game delivered.
RECURSIVE onUi(_, _, _)
onUi(c, emitted, k) ==
  IF k > Len(emitted) THEN c
  ELSE onUi([c EXCEPT !.uiSnap = emitted[k].snap,
                      !.phase = mapGamePhaseToClientPhase(emitted[k].snap.phase)],
            emitted, k + 1)

\* What a handler of the game works on: the game, with nothing delivered yet.
Quiet(g) == [g EXCEPT !.emitted = <<>>, !.rankUses = <<>>]

MAX_PARTICIPANTS == 1000

\* engine.start that skips the test of the three refs
\* gameRef.current = game: the instance gameRef held is dropped as it is.  If
\* it is running, it stays on the ticker with its onUi callback; orphans
\* counts these instances.
orphaned(c, g) == IF c.game /\ g.phase = "running" THEN 1 ELSE 0

engineStart_mut(c, g, n, minRoundMs, rows, t) ==
  LET g1 == start(Quiet(g), Min(n, MAX_PARTICIPANTS), minRoundMs, rows, t)
  IN [started |-> TRUE,
      game |-> g1,
      client |-> onUi([c EXCEPT !.game = TRUE, !.phase = "running",
                                    !.orphans = @ + orphaned(c, g)],
                          g1.emitted, 1)]

\* engine.start(input): the game and the hook after it, and whether a game was
\* started.  new MarblesGame(...).start(...) on the fresh instance leaves what
\* start leaves on any instance (it begins with destroy()).
engineStart(c, g, n, minRoundMs, rows, t) ==
  IF ~c.app \/ ~c.PIXI \/ ~c.R
  THEN [started |-> FALSE, game |-> Quiet(g), client |-> c]
  ELSE LET g1 == start(Quiet(g), Min(n, MAX_PARTICIPANTS), minRoundMs, rows, t)
       IN [started |-> TRUE,
           game |-> g1,
           client |-> onUi([c EXCEPT !.game = TRUE, !.phase = "running",
                                    !.orphans = @ + orphaned(c, g)],
                          g1.emitted, 1)]

\* engine.reset(): gameRef.current?.destroy(), then the three assignments.
engineReset(c, g) ==
  [game |-> IF c.game THEN destroy(Quiet(g)) ELSE Quiet(g),
   client |-> [c EXCEPT !.game = FALSE, !.uiSnap = Null, !.phase = "setup"]]

\* The cleanup of the effect that mounted the renderer.
engineUnmount(c, g) ==
  [game |-> IF c.game THEN destroy(Quiet(g)) ELSE Quiet(g),
   client |-> [c EXCEPT !.game = FALSE, !.app = FALSE, !.PIXI = FALSE,
                        !.orphans = 0]]

(***************************************************************************)
(* The state machine                                                       *)
(***************************************************************************)
NoCall == [op |-> "none", arg |-> <<>>, ret |-> FALSE]
Call(op, arg, ret) == [op |-> op, arg |-> arg, ret |-> ret]

Init ==
  /\ game = IdleGame
  /\ now = 0
  /\ ticker = FALSE
  /\ pc = "idle"
  /\ round = 0
  /\ steps = 0
  /\ client = InitClient
  /\ call = NoCall
  /\ requests = 0

\* loadWasm(): the physics module is loaded and initialised.
LoadWasm ==
  /\ pc = "idle"
  /\ ~client.R
  /\ client' = [client EXCEPT !.R = TRUE]
  /\ call' = NoCall
  /\ game' = Quiet(game)
  /\ UNCHANGED <<now, ticker, pc, round, steps, requests>>

\* mountPixi(): the renderer module is loaded and the application initialised.
MountPixi ==
  /\ pc = "idle"
  /\ ~client.app
  /\ client' = [client EXCEPT !.app = TRUE, !.PIXI = TRUE]
  /\ call' = NoCall
  /\ game' = Quiet(game)
  /\ UNCHANGED <<now, ticker, pc, round, steps, requests>>

\* The page calls engine.start between two frames; its start button is disabled
\* while the client phase is 'running' (components/setup-panel.tsx).
StartRoundWithin(limit, Counts, MinRounds) ==
  /\ pc = "idle"
  /\ round < limit
  /\ client.phase # "running"
  /\ \E n \in Counts, minRoundMs \in MinRounds :
       \E rows \in SpawnRows(n) :
          \E r \in {engineStart(client, game, n, minRoundMs, rows, now)} :
             /\ game' = r.game
             /\ client' = r.client
             /\ ticker' = (r.started \/ ticker)
             /\ round' = IF r.started THEN round + 1 ELSE round
             /\ call' = Call("start", <<n>>, r.started)
  /\ UNCHANGED <<now, pc, steps, requests>>

StartRound(Counts, MinRounds) == StartRoundWithin(MaxRounds, Counts, MinRounds)

\* The key handler without its test of the phase.
OnNamesTextKeyDown_mut(limit, Counts, MinRounds) ==
  /\ pc = "idle"
  /\ round < limit
  /\ \E n \in Counts, minRoundMs \in MinRounds :
       \E rows \in SpawnRows(n) :
          \E r \in {engineStart(client, game, n, minRoundMs, rows, now)} :
             /\ game' = r.game
             /\ client' = r.client
             /\ ticker' = (r.started \/ ticker)
             /\ round' = IF r.started THEN round + 1 ELSE round
             /\ call' = Call("start", <<n>>, r.started)
  /\ UNCHANGED <<now, pc, steps, requests>>

\* Ctrl/Cmd+Enter in the names field between two frames: onNamesTextKeyDown
\* returns unless the engine can start (canStart: the physics module and the
\* renderer are ready) and the phase is not running; otherwise it calls
\* engine.start as the button does.
OnNamesTextKeyDown(limit, Counts, MinRounds) ==
  /\ pc = "idle"
  /\ round < limit
  /\ \E n \in Counts, minRoundMs \in MinRounds :
       \E rows \in SpawnRows(n) :
          \E r \in {IF ~(client.R /\ client.app /\ client.PIXI) \/ client.phase = "running"
                    THEN [started |-> FALSE, game |-> Quiet(game), client |-> client]
                    ELSE engineStart(client, game, n, minRoundMs, rows, now)} :
             /\ game' = r.game
             /\ client' = r.client
             /\ ticker' = (r.started \/ ticker)
             /\ round' = IF r.started THEN round + 1 ELSE round
             /\ call' = Call("start", <<n>>, r.started)
  /\ UNCHANGED <<now, pc, steps, requests>>

\* The page calls engine.reset between two frames.
Reset ==
  /\ pc = "idle"
  /\ LET r == engineReset(client, game)
     IN /\ game' = r.game
        /\ client' = r.client
        /\ ticker' = IF client.game THEN FALSE ELSE ticker
  /\ call' = Call("reset", <<>>, TRUE)
  /\ UNCHANGED <<now, pc, round, steps, requests>>

\* The page is left: the effect's cleanup runs.
Unmount ==
  /\ pc = "idle"
  /\ client.app
  /\ LET r == engineUnmount(client, game)
     IN /\ game' = r.game
        /\ client' = r.client
        /\ ticker' = FALSE
  /\ call' = NoCall
  /\ UNCHANGED <<now, pc, round, steps, requests>>

\* The page calls engine.focusByName(name) between two frames.
FocusByNameWithin(limit, Names) ==
  /\ pc = "idle"
  /\ requests < limit
  /\ requests' = requests + 1
  /\ \E name \in Names :
       /\ game' = IF client.game THEN focusByName(Quiet(game), name, Sec(4), now)
                  ELSE Quiet(game)
       /\ call' = Call("focusByName", name, client.game /\ focusTarget(game, name) # 0)
  /\ UNCHANGED <<now, ticker, pc, round, steps, client>>

FocusByName(Names) == FocusByNameWithin(MaxRequests, Names)

\* The page calls engine.panCameraBy(dx, dy) between two frames.
PanCameraByWithin(limit, Deltas) ==
  /\ pc = "idle"
  /\ requests < limit
  /\ requests' = requests + 1
  /\ \E d \in Deltas :
       /\ game' = IF client.game THEN panCameraBy(Quiet(game), d[1], d[2], now)
                  ELSE Quiet(game)
       /\ call' = Call("panCameraBy", d, TRUE)
  /\ UNCHANGED <<now, ticker, pc, round, steps, client>>

PanCameraBy(Deltas) == PanCameraByWithin(MaxRequests, Deltas)

\* The page calls engine.jumpCameraTo(x, y, durationMs) between two frames.
JumpCameraToWithin(limit, Points, Durations) ==
  /\ pc = "idle"
  /\ requests < limit
  /\ requests' = requests + 1
  /\ \E p \in Points, durationMs \in Durations :
       /\ game' = IF client.game
                  THEN jumpCameraTo(Quiet(game), p[1], p[2], durationMs, now)
                  ELSE Quiet(game)
       /\ call' = Call("jumpCameraTo", <<p[1], p[2], durationMs>>, TRUE)
  /\ UNCHANGED <<now, ticker, pc, round, steps, client>>

JumpCameraTo(Points, Durations) == JumpCameraToWithin(MaxRequests, Points, Durations)

\* The ticker calls onTick, d microseconds after the last event.
FrameBegin(env) ==
  /\ pc = "idle"
  /\ ticker
  /\ \E d \in env.deltas :
       /\ now + d <= Sec(env.untilSec)
       /\ (AtRest(steps, env) \/ now - game.startedAtMs >= Sec(1)) => d >= Sec(1)
       /\ now' = now + d
       /\ game' = onTickBegin(Quiet(game), now + d)
  /\ pc' = "loop"
  /\ call' = NoCall
  /\ UNCHANGED <<ticker, round, steps, client, requests>>

\* One iteration of onTick's while loop: one simulation tick.
Tick(env) ==
  /\ pc = "loop"
  /\ loopCondition(game)
  /\ \E inp \in TickInputs(game, env, steps) :
       /\ game' = onTickStep(Quiet(game), now, inp)
  /\ client' = onUi(client, game'.emitted, 1)
  /\ steps' = steps + 1
  /\ UNCHANGED <<now, ticker, pc, round, call, requests>>

\* The rest of onTick, once the loop is over.
FrameEnd ==
  /\ pc = "loop"
  /\ ~loopCondition(game)
  /\ game' = onTickEnd(Quiet(game), now)
  /\ client' = onUi(client, game'.emitted, 1)
  /\ ticker' = IF game.phase = "running" /\ game'.phase = "finished" THEN FALSE ELSE ticker
  /\ pc' = "idle"
  /\ UNCHANGED <<now, round, steps, call, requests>>

FrameDeltas == {FIXED_STEP_MS, Sec(13)}
FastSpeeds(n) == {[i \in 1..n |-> 1000]}

(***************************************************************************)
(* The race of a few marbles: gates, warp, fall, finish, end of round.     *)
(* Marbles 1 and 2 run down the course, any other rests at its spawn.      *)
(***************************************************************************)
MainCourse == <<P2850, P5300, P6100, P8200, P8965, P9000>>
MainEnv ==
  Env({1, 2}, [i \in {1, 2} |-> MainCourse], [i \in {1, 2} |-> {P2850}],
      FastSpeeds(NumAgents), FrameDeltas, MaxTicks, MaxNowSec)

Next ==
  \/ LoadWasm
  \/ MountPixi
  \/ StartRound({NumAgents}, {Sec(5)})
  \/ Reset
  \/ FrameBegin(MainEnv)
  \/ Tick(MainEnv)
  \/ FrameEnd

Spec == Init /\ [][Next]_vars

(***************************************************************************)
(* The race of a crowd: checkpoint cuts.  Marble 1 runs down past the      *)
(* checkpoints to the cup, marble 2 stays at its spawn or falls out of the *)
(* world, the others rest at their spawn.                                  *)
(***************************************************************************)
CutCourse == <<P2850, P6450, P9000>>
CutEnv ==
  Env({1, 2}, [i \in {1, 2} |-> IF i = 1 THEN CutCourse ELSE <<>>],
      [i \in {1, 2} |-> IF i = 2 THEN {SpawnPos(0), SpawnPos(1)} ELSE {}],
      FastSpeeds(CutAgents + CutExtra), FrameDeltas, CutTicks, MaxNowSec)

NextCut ==
  \/ LoadWasm
  \/ MountPixi
  \/ StartRound({CutAgents, CutAgents + CutExtra}, {Sec(5)})
  \/ Reset
  \/ FrameBegin(CutEnv)
  \/ Tick(CutEnv)
  \/ FrameEnd

SpecCut == Init /\ [][NextCut]_vars

(***************************************************************************)
(* The race through the gates: marble 1 goes down past the three jet       *)
(* bands, over frames that may be 13 s apart.                              *)
(***************************************************************************)
GateCourse == <<P2850, P5300, P8200>>
GateEnv ==
  Env({1}, [i \in {1} |-> GateCourse], [i \in {1} |-> {}],
      FastSpeeds(GateAgents), FrameDeltas, GateTicks, GateNowSec)

NextGate ==
  \/ LoadWasm
  \/ MountPixi
  \/ StartRound({GateAgents}, {Sec(5)})
  \/ Reset
  \/ FrameBegin(GateEnv)
  \/ Tick(GateEnv)
  \/ FrameEnd

SpecGate == Init /\ [][NextGate]_vars

(***************************************************************************)
(* Gate 2 at close range: one agent comes down to the line of gate 2       *)
(* (y = 5200) in steps of a few pixels, is thrown back 44 px above it and  *)
(* comes down again, as an agent does that other agents push from above.   *)
(***************************************************************************)
JetAgents == 1
JetTicks == 9
JetNowSec == 3

A5190 == [x |-> 640, y |-> 5190]    \* 10 px above the line of gate 2
A5210 == [x |-> 640, y |-> 5210]    \* 10 px below it

JetEnv ==
  Env({1}, [i \in {1} |-> <<P2850, A5190, A5210>>], [i \in {1} |-> {}],
      FastSpeeds(JetAgents), {FIXED_STEP_MS, Sec(1)}, JetTicks, JetNowSec)

NextJet ==
  \/ LoadWasm
  \/ MountPixi
  \/ StartRound({JetAgents}, {Sec(5)})
  \/ FrameBegin(JetEnv)
  \/ Tick(JetEnv)
  \/ FrameEnd

SpecJet == Init /\ [][NextJet]_vars

(***************************************************************************)
(* The camera: marble 1 goes down to the cup, marble 2 stays at its spawn   *)
(* or falls out of the world, while the page asks for focus, pans and      *)
(* jumps.  Frames are up to 2 s apart.                                     *)
(***************************************************************************)
CamDeltas == {FIXED_STEP_MS, Sec(2)}
CamEnv ==
  Env({1, 2}, [i \in {1, 2} |-> IF i = 1 THEN <<P9000>> ELSE <<P9150>>],
      [i \in {1, 2} |-> IF i = 2 THEN {SpawnPos(0)} ELSE {}],
      FastSpeeds(CamAgents), CamDeltas, CamTicks, CamNowSec)

CamNames ==
  { <<"a">>, <<" ", "a", "b", " ">>, <<"b">>, <<"z">>, <<" ">>, <<>> }
CamPans == { <<0, 900>>, <<-200, -400>> }
CamPoints == { <<0, 4000>>, <<2000, 9000>> }

NextCam ==
  \/ LoadWasm
  \/ MountPixi
  \/ StartRound({CamAgents}, {Sec(5)})
  \/ Reset
  \/ Unmount
  \/ FocusByName(CamNames)
  \/ PanCameraBy(CamPans)
  \/ JumpCameraTo(CamPoints, {Sec(4)})
  \/ FrameBegin(CamEnv)
  \/ Tick(CamEnv)
  \/ FrameEnd

SpecCam == Init /\ [][NextCam]_vars

(***************************************************************************)
(* The camera under two requests in a row: a pan or a jump, then a focus   *)
(* request, over the frames of the first seconds of a round.               *)
(***************************************************************************)
ManualRequests == 2
ManualTicks == 2
ManualNowSec == 5

ManualEnv ==
  Env({1}, [i \in {1} |-> <<P9000>>], [i \in {1} |-> {}],
      FastSpeeds(CamAgents), CamDeltas, ManualTicks, ManualNowSec)

NextManual ==
  \/ LoadWasm
  \/ MountPixi
  \/ StartRound({CamAgents}, {Sec(5)})
  \/ FocusByNameWithin(ManualRequests, { <<"b">>, <<"z">> })
  \/ PanCameraByWithin(ManualRequests, { <<0, 900>> })
  \/ JumpCameraToWithin(ManualRequests, { <<0, 4000>> }, {Sec(4)})
  \/ FrameBegin(ManualEnv)
  \/ Tick(ManualEnv)
  \/ FrameEnd

SpecManual == Init /\ [][NextManual]_vars

(***************************************************************************)
(* The minimap peek: up to three camera requests (a focus, a jump, then a  *)
(* pan, a focus or another jump) over the frames of a round in which       *)
(* agent 1 reaches the cup while agent 2 stays at its spawn point.         *)
(***************************************************************************)
PeekRequests == 3
PeekTicks == 2
PeekNowSec == 8

PeekEnv ==
  Env({1}, [i \in {1} |-> <<P9000>>], [i \in {1} |-> {}],
      FastSpeeds(CamAgents), CamDeltas, PeekTicks, PeekNowSec)

NextPeek ==
  \/ LoadWasm
  \/ MountPixi
  \/ StartRound({CamAgents}, {Sec(5)})
  \/ FocusByNameWithin(PeekRequests, { <<"a">>, <<"b">>, <<"z">> })
  \/ PanCameraByWithin(PeekRequests, { <<0, 900>> })
  \/ JumpCameraToWithin(PeekRequests, { <<0, 4000>> }, {Sec(2), Sec(4)})
  \/ FrameBegin(PeekEnv)
  \/ Tick(PeekEnv)
  \/ FrameEnd

SpecPeek == Init /\ [][NextPeek]_vars

(***************************************************************************)
(* Vocabulary of the properties                                            *)
(***************************************************************************)
\* A step inside one round: the same start() call, a world before and after.
SameRound == round' = round /\ game.world # Null /\ game'.world # Null

Marbles == DOMAIN game.marbles

\* The step runs tryWarp to its end for marble i (the only writer of warpUsed).
Warped(i) == ~game.marbles[i].warpUsed /\ game'.marbles[i].warpUsed

\* The time the finish sequence was started at (stopAtMs = start + POST_FINISH_RUN_MS).
FinishStartedAtMs == game.finishState.stopAtMs - POST_FINISH_RUN_MS

(***************************************************************************)
(* C1  Progress                                                            *)
(***************************************************************************)
\* C1, as stated: over every step of a round (so over every two consecutive
\* ticks) no marble's progressY decreases.
C1_ProgressNeverDecreases ==
  [][SameRound =>
       \A i \in Marbles : game'.marbles[i].progressY >= game.marbles[i].progressY]_vars

\* C1, amended: a marble's progressY decreases over no step of a round but the
\* one in which its Warp fires; that step leaves it at WARP_Y or beyond.
C1_ProgressDecreasesOnlyByWarp ==
  [][SameRound =>
       \A i \in Marbles :
          IF Warped(i)
          THEN game'.marbles[i].progressY >= WARP_Y
          ELSE game'.marbles[i].progressY >= game.marbles[i].progressY]_vars

\* A marble stands where its Warp put it, its progress re-based to WARP_Y, and
\* another marble has been bounced back above the depth it had reached.
C1_Witness ==
  /\ game.world # Null
  /\ \E i \in Marbles :
        /\ game.marbles[i].warpUsed
        /\ game.marbles[i].progressY = WARP_Y
        /\ game.marbles[i].body.y = WARP_Y
  /\ \E j \in Marbles :
        /\ game.marbles[j].bounces[1] = 1
        /\ game.marbles[j].lastY < game.marbles[j].progressY

(***************************************************************************)
(* C2  Elimination                                                         *)
(***************************************************************************)
\* C2: a marble's isEliminated never returns to false within a round, and at
\* every moment the world has been asked to remove its body and collider once
\* if it is eliminated and never if it is not (so the flag rose at most once and
\* the removal happened at that transition), whatever the cause.
C2_EliminatedOnce ==
  /\ [](game.world # Null =>
          \A i \in Marbles :
             /\ game.world.removeCalls[i] = (IF game.marbles[i].isEliminated THEN 1 ELSE 0)
             /\ (i \in game.world.bodies) = ~game.marbles[i].isEliminated
             /\ (i \in game.world.colliders) = ~game.marbles[i].isEliminated
             /\ (i \in game.marblesByCollider) = ~game.marbles[i].isEliminated)
  /\ [][SameRound =>
          \A i \in Marbles :
             game.marbles[i].isEliminated => game'.marbles[i].isEliminated]_vars

\* The three causes in one round: a marble fell, a cut was executed, a marble
\* finished; and a frame has been processed since.
C2_Witness ==
  /\ game.world # Null
  /\ game.eliminatedBy.fall >= 1
  /\ game.eliminatedBy.cut >= CUT_MIN_COUNT
  /\ Len(game.cupEntries) >= 1
  /\ \A i \in Marbles : game.marbles[i].isEliminated => game.world.removeCalls[i] = 1
  /\ pc = "idle"

(***************************************************************************)
(* C3  Finish record and winner                                            *)
(***************************************************************************)
\* C3: the finish record holds no marble twice and is in arrival order (it only
\* grows at its end, with times that do not decrease); a winner, once set, is the
\* first entry of the record and stays the same for the rest of the round.
C3_FinishRecordAndWinner ==
  /\ [](/\ \A j, k \in DOMAIN game.cupEntries :
             /\ j # k => game.cupEntries[j].id # game.cupEntries[k].id
             /\ j < k => game.cupEntries[j].atMs <= game.cupEntries[k].atMs
        /\ {game.cupEntries[k].id : k \in DOMAIN game.cupEntries} = game.cupEntryById
        /\ game.winner # Null =>
             Len(game.cupEntries) > 0 /\ game.winner.id = game.cupEntries[1].id)
  /\ [][SameRound =>
          /\ Len(game'.cupEntries) >= Len(game.cupEntries)
          /\ SubSeq(game'.cupEntries, 1, Len(game.cupEntries)) = game.cupEntries
          /\ game.winner # Null => game'.winner = game.winner]_vars

\* Two marbles have finished, the second-listed one first, and the winner stands.
C3_Witness ==
  /\ Len(game.cupEntries) >= 2
  /\ game.cupEntries[1].id > game.cupEntries[2].id
  /\ game.winner # Null
  /\ game.winner.id = game.cupEntries[1].id

(***************************************************************************)
(* C4  Start of the finish sequence                                        *)
(***************************************************************************)
\* C4: a finish sequence in progress was started at or after the minimum-round
\* deadline; and a tick that records a cup entry at or after the deadline, with
\* no finish sequence in progress, leaves one started at that tick's time.
C4_FinishSequenceStart ==
  /\ [](game.finishState # Null => FinishStartedAtMs >= game.minRoundEndsAtMs)
  /\ [][(/\ SameRound
         /\ Len(game'.cupEntries) > Len(game.cupEntries)
         /\ now >= game.minRoundEndsAtMs
         /\ game.finishState = Null)
        => (/\ game'.finishState # Null
            /\ game'.finishState.stopAtMs = now + POST_FINISH_RUN_MS
            /\ game'.finishState.winnerId = game'.cupEntries[1].id)]_vars

\* A marble finished before the deadline without starting the sequence, and a
\* later cup entry, past the deadline, has just started it inside the loop.
C4_Witness ==
  /\ pc = "loop"
  /\ Len(game.cupEntries) = 2
  /\ game.cupEntries[1].atMs < game.minRoundEndsAtMs
  /\ game.cupEntries[2].atMs >= game.minRoundEndsAtMs
  /\ game.finishState # Null
  /\ FinishStartedAtMs = game.cupEntries[2].atMs

(***************************************************************************)
(* C5  Hard stop                                                           *)
(***************************************************************************)
\* C5: the frame that ends with a finish sequence in progress at a time at or
\* past its stopAtMs turns the phase to finished and detaches the callback; the
\* phase turns to finished in no other step; and while the phase is finished the
\* callback stays detached and onTick is not running, so no tick is executed.
C5_HardStop ==
  /\ [][(/\ SameRound
         /\ pc = "loop" /\ pc' = "idle"
         /\ game.phase = "running"
         /\ game.finishState # Null
         /\ now >= game.finishState.stopAtMs)
        => (game'.phase = "finished" /\ ~ticker')]_vars
  /\ [][(SameRound /\ game.phase = "running" /\ game'.phase = "finished")
        => (/\ pc = "loop" /\ pc' = "idle"
            /\ game.finishState # Null
            /\ now >= game.finishState.stopAtMs)]_vars
  /\ [](game.phase = "finished" => ~ticker /\ pc = "idle")
  /\ [][game.phase = "finished" /\ game'.phase = "finished"
        => game'.elapsedMs = game.elapsedMs]_vars

\* The round has ended: more than POST_FINISH_RUN_MS after the first finisher.
C5_Witness ==
  /\ game.phase = "finished"
  /\ ~ticker
  /\ Len(game.cupEntries) > 0
  /\ now >= game.cupEntries[1].atMs + POST_FINISH_RUN_MS

(***************************************************************************)
(* C6  No end of round without a finisher                                  *)
(***************************************************************************)
\* C6: the phase is never finished with an empty finish record; a round whose
\* record is empty after a step is still running after it, also past the
\* deadline and with no marble alive.
C6_NoFinishWithoutFinisher ==
  /\ [](game.phase = "finished" => Len(game.cupEntries) > 0)
  /\ [][(SameRound /\ game.phase = "running" /\ Len(game'.cupEntries) = 0)
        => game'.phase = "running"]_vars

\* Past the deadline, every marble has fallen out, nobody has finished, a frame
\* has just been processed, and the round is still running with its callback.
C6_Witness ==
  /\ game.phase = "running"
  /\ game.world # Null
  /\ now >= game.minRoundEndsAtMs + Sec(13)
  /\ Alive(game) = {}
  /\ Len(game.cupEntries) = 0
  /\ pc = "idle"
  /\ ticker

(***************************************************************************)
(* C7  What a cut removes                                                  *)
(***************************************************************************)
\* A step that is a simulation tick of the round.
TickStep == SameRound /\ steps' # steps

\* The marbles alive after the step, and the leader's progress among them (the
\* scan's aliveCount and leaderProgress when no cut is executed in the step).
AliveAfter == Cardinality(Alive(game'))
LeaderAfter(y) == \E i \in Alive(game') : game'.marbles[i].progressY >= y

\* The marbles the step eliminates with reason 'cut': not the ones that left the
\* world sideways (reason 'fall') nor the ones it recorded as finishers.
NumCut == game'.eliminatedBy.cut - game.eliminatedBy.cut
CutVictims ==
  {i \in Marbles :
     /\ ~game.marbles[i].isEliminated /\ game'.marbles[i].isEliminated
     /\ game'.marbles[i].body.x <= WORLD_W + OUT_OF_BOUNDS_X_PAD
     /\ i \notin game'.cupEntryById}

\* The tick in which the leader is seen at or past the next checkpoint, no cut
\* pending: with N marbles alive, N >= 50 announces a cut of N \div 10 and
\* eliminates nobody, N < 50 consumes the checkpoint, announces and eliminates
\* nothing.  (No course of this specification ends a scan early.)
CheckpointReached ==
  /\ TickStep
  /\ game.cutState = Null
  /\ game.checkpointIndex < Len(checkpointsY)
  /\ LeaderAfter(checkpointsY[game.checkpointIndex + 1])
AnnouncedOrSkipped ==
  CheckpointReached =>
    /\ NumCut = 0
    /\ IF AliveAfter >= CUT_MIN_ALIVE
       THEN /\ game'.cutState # Null
            /\ game'.cutState.cutCount = AliveAfter \div 10
            /\ game'.checkpointIndex = game.checkpointIndex
       ELSE /\ game'.cutState = Null
            /\ game'.checkpointIndex = game.checkpointIndex + 1

\* The tick that executes the pending cut.
CutExecutes == TickStep /\ game.cutState # Null /\ game'.cutState = Null
VictimsAreLast ==
  /\ Cardinality(CutVictims) = NumCut
  /\ \A v \in CutVictims : \A a \in Alive(game') :
        game'.marbles[a].progressY >= game'.marbles[v].progressY

\* C7, as stated: the cut announced with N alive removes exactly N \div 10
\* marbles when it is executed, the lowest in progress then; with N < 50 the
\* checkpoint is consumed with no announcement and no elimination.
C7_CutRemovesTenth ==
  [][/\ AnnouncedOrSkipped
     /\ CutExecutes => (NumCut = game.cutState.cutCount /\ VictimsAreLast)]_vars

\* C7, amended: the executed cut removes the announced N \div 10 marbles, the
\* lowest in progress then, if at least 50 marbles are alive when it is
\* executed, and nobody otherwise; the checkpoint is consumed either way.
C7_CutRemovesTenthOfFifty ==
  [][/\ AnnouncedOrSkipped
     /\ CutExecutes =>
          /\ NumCut = (IF AliveAfter + NumCut >= CUT_MIN_ALIVE
                       THEN game.cutState.cutCount ELSE 0)
          /\ VictimsAreLast
          /\ game'.checkpointIndex = game.checkpointIndex + 1]_vars

\* Of 56 marbles one fell and the first cut, executed with 55 alive, removed
\* five, none of them the leader; nothing else was eliminated.
C7_Witness ==
  /\ game.world # Null
  /\ Len(game.marbles) = CutAgents + CutExtra
  /\ game.checkpointIndex = 1
  /\ game.eliminatedBy.fall = 1
  /\ game.eliminatedBy.cut = (CutAgents + CutExtra - 1) \div 10
  /\ Cardinality(Alive(game)) = CutAgents + CutExtra - 1 - game.eliminatedBy.cut
  /\ ~game.marbles[1].isEliminated

(***************************************************************************)
(* C8  Checkpoints and the pending cut                                     *)
(***************************************************************************)
\* C8: cutState holds at most one cut; checkpointIndex stays within 0..2 and
\* over a step of a round stays or grows by one; a pending cut is for checkpoint
\* checkpointIndex + 1 and counts at least five; a pending cut is not replaced;
\* announcing leaves the index, executing and skipping raise it by one, so a
\* round executes at most two cuts.
C8_CheckpointsInOrder ==
  /\ [](game.world # Null =>
          /\ game.checkpointIndex \in 0..Len(checkpointsY)
          /\ game.cutState # Null =>
               /\ game.checkpointIndex < Len(checkpointsY)
               /\ game.cutState.checkpointNumber = game.checkpointIndex + 1
               /\ game.cutState.cutCount >= CUT_MIN_COUNT
          /\ game.eliminatedBy.cut <= game.checkpointIndex * ((CutAgents + CutExtra + 1) \div 10))
  /\ [][SameRound =>
          /\ game'.checkpointIndex \in {game.checkpointIndex, game.checkpointIndex + 1}
          /\ (game.cutState # Null /\ game'.cutState # Null) => game'.cutState = game.cutState
          /\ (game.cutState # Null /\ game'.cutState = Null) =>
               game'.checkpointIndex = game.checkpointIndex + 1
          /\ (game.cutState = Null /\ game'.cutState # Null) =>
               game'.checkpointIndex = game.checkpointIndex
          /\ NumCut > 0 => (game.cutState # Null /\ game'.cutState = Null)]_vars

\* The first cut has been executed and the second one is pending.
C8_Witness ==
  /\ game.world # Null
  /\ game.checkpointIndex = 1
  /\ game.eliminatedBy.cut >= CUT_MIN_COUNT
  /\ game.cutState # Null
  /\ game.cutState.checkpointNumber = 2

(***************************************************************************)
(* C9, C10  Gates                                                          *)
(***************************************************************************)
\* Band b is active at the current time.
BandActive(b) == now - game.startedAtMs < game.jetBands[b].activeUntilMs

\* C9: while band 1 (the source's index 0) is active, no alive marble has been
\* scanned at or below its line without its mark, so the first crossing the scan
\* sees is bounced; the mark of band 1 is never given without a bounce (never by
\* a jackpot) and every bounce gives it; band 1 bounces a marble once at most;
\* and the bounce puts the marble 44 px above the line.
C9_FirstGateBouncesOnce ==
  /\ [](game.world # Null =>
          \A i \in Marbles :
             LET m == game.marbles[i]
             IN /\ (BandActive(1) /\ ~m.isEliminated /\ m.lastY >= game.jetBands[1].y)
                     => 1 \in m.jetMask
                /\ (1 \in m.jetMask) = (m.bounces[1] = 1)
                /\ m.bounces[1] <= 1)
  /\ [][SameRound =>
          \A i \in Marbles :
             game'.marbles[i].bounces[1] > game.marbles[i].bounces[1] =>
               /\ game.marbles[i].lastY < game.jetBands[1].y
               /\ game'.marbles[i].lastY = game.jetBands[1].y - BOUNCE_BACK
               /\ game'.marbles[i].body.y = game.jetBands[1].y - BOUNCE_BACK
               /\ BandActive(1)]_vars

\* While band 1 is active a marble bounced by it once has gone through it.
C9_Witness ==
  /\ game.world # Null
  /\ BandActive(1)
  /\ \E i \in Marbles :
        /\ game.marbles[i].bounces[1] = 1
        /\ 1 \in game.marbles[i].jetMask
        /\ game.marbles[i].lastY >= game.jetBands[1].y
        /\ ~game.marbles[i].isEliminated

\* C10, as stated: no band bounces (denies) the same marble twice.
C10_DeniedAtMostOnce ==
  game.world # Null =>
    \A i \in Marbles : \A b \in DOMAIN game.jetBands : game.marbles[i].bounces[b] <= 1

\* C10, amended: band 1 denies a marble once at most; for every band the mark,
\* once given, stays, and a marble that carries it is not denied by that band;
\* a denial by band 2 or 3 gives no mark (so the band may deny the marble again).
C10_MarkedNeverDenied ==
  /\ [](game.world # Null => \A i \in Marbles : game.marbles[i].bounces[1] <= 1)
  /\ [][SameRound =>
          \A i \in Marbles : \A b \in DOMAIN game.jetBands :
             LET m == game.marbles[i]
                 n == game'.marbles[i]
             IN /\ b \in m.jetMask => (b \in n.jetMask /\ n.bounces[b] = m.bounces[b])
                /\ n.bounces[b] \in {m.bounces[b], m.bounces[b] + 1}
                /\ (b > 1 /\ n.bounces[b] > m.bounces[b]) => b \notin n.jetMask]_vars

\* A marble denied twice by band 2 has then got its jackpot pass there.
C10_Witness ==
  /\ game.world # Null
  /\ \E i \in Marbles :
        /\ game.marbles[i].bounces[2] >= 2
        /\ 2 \in game.marbles[i].jetMask

(***************************************************************************)
(* C11  Manual camera                                                      *)
(***************************************************************************)
\* The step is the tail of onTick of a running game: the one place updateCamera
\* is called from.
CameraUpdate == pc = "loop" /\ pc' = "idle" /\ game.phase = "running"

\* The view position the auto camera would head for: the leader's, anchored.
AutoDesiredY ==
  clamp(game.marbles[CameraLeader(game)].body.y - (SCREEN_H * CAMERA_Y_ANCHOR) \div 100,
        0, WORLD_H - SCREEN_H)

\* C11: a camera update that finds the camera manual, with manualUntilMs still
\* ahead, leaves camera.x and camera.y as they were, and a snapshot emitted by
\* the same frame reports that position, wherever the leader or a focus target is.
C11_ManualCameraStays ==
  [][(CameraUpdate /\ game.camera.mode = "manual" /\ now < game.camera.manualUntilMs)
       => /\ game'.camera.x = game.camera.x
          /\ game'.camera.y = game.camera.y
          /\ \A k \in DOMAIN game'.emitted :
                game'.emitted[k].snap.camera = [x |-> game.camera.x, y |-> game.camera.y]
    ]_vars

\* A frame has just ended (lastTickMs = now) in a running round whose camera was
\* made manual before that frame and still is, while the leader is elsewhere.
C11_Witness ==
  /\ pc = "idle" /\ call = NoCall /\ game.phase = "running"
  /\ game.lastTickMs = now
  /\ game.camera.mode = "manual" /\ now < game.camera.manualUntilMs
  /\ game.camera.manualUntilMs < now + Sec(3)
  /\ Alive(game) # {}
  /\ AutoDesiredY # game.camera.y
  /\ game.emitted # <<>>

(***************************************************************************)
(* A round that fills the finish record: of ten agents, eight enter the    *)
(* cup in the first tick of the round's first frame, the last two follow.  *)
(***************************************************************************)
FinEnv ==
  Env({FinAgents - 1, FinAgents}, [i \in {FinAgents - 1, FinAgents} |-> <<P9000>>],
      [i \in {FinAgents - 1, FinAgents} |-> {}],
      FastSpeeds(FinAgents), FrameDeltas, FinTicks, FinNowSec)

\* The first tick of the first frame has run; the solver took agents 1..8 into
\* the cup sensor.
InitFinish ==
  \E d \in FrameDeltas, descending \in BOOLEAN, speed \in FinEnv.speeds :
     \E r \in {engineStart([InitClient EXCEPT !.app = TRUE, !.PIXI = TRUE, !.R = TRUE],
                             IdleGame, FinAgents, Sec(5), [i \in 1..FinAgents |-> 0], 0)} :
     \E g2 \in {onTickStep(Quiet(onTickBegin(Quiet(r.game), d)), d,
                            [moves |-> [i \in 1..(FinAgents - 2) |-> P9000],
                             jackpot |-> {}, descending |-> descending,
                             speed |-> speed])} :
        /\ game = g2
        /\ client = onUi(r.client, g2.emitted, 1)
        /\ now = d
        /\ ticker = TRUE
        /\ pc = "loop"
        /\ round = 1
        /\ steps = 1
        /\ call = NoCall
        /\ requests = 0

NextFinish ==
  \/ LoadWasm
  \/ MountPixi
  \/ StartRound({FinAgents}, {Sec(5)})
  \/ Reset
  \/ FrameBegin(FinEnv)
  \/ Tick(FinEnv)
  \/ FrameEnd

SpecFinish == (Init \/ InitFinish) /\ [][NextFinish]_vars

(***************************************************************************)
(* A second round on the instance the first one ended on: agent 1 reaches  *)
(* the cup, agent 2 falls, the round runs to its hard stop and the page    *)
(* starts again.                                                           *)
(***************************************************************************)
AgainEnv ==
  Env({1, 2}, [i \in {1, 2} |-> <<P9000>>],
      [i \in {1, 2} |-> IF i = 2 THEN {SpawnPos(0)} ELSE {}],
      FastSpeeds(2), FrameDeltas, AgainTicks, AgainNowSec)

NextAgain ==
  \/ LoadWasm
  \/ MountPixi
  \/ StartRoundWithin(AgainRounds, {2}, {Sec(5)})
  \/ PanCameraBy(CamPans)
  \/ FrameBegin(AgainEnv)
  \/ Tick(AgainEnv)
  \/ FrameEnd

SpecAgain == Init /\ [][NextAgain]_vars

\* The same rounds with the page's reset and the renderer's cleanup.
NextPhase ==
  \/ LoadWasm
  \/ MountPixi
  \/ StartRoundWithin(AgainRounds, {2}, {Sec(5)})
  \/ Reset
  \/ Unmount
  \/ PanCameraBy(CamPans)
  \/ FrameBegin(AgainEnv)
  \/ Tick(AgainEnv)
  \/ FrameEnd

SpecPhase == Init /\ [][NextPhase]_vars

(***************************************************************************)
(* Two rounds started from the setup panel, by its button or by            *)
(* Ctrl/Cmd+Enter in the names field, which may be pressed at any time:    *)
(* before the renderer is ready, during a round and after its end.         *)
(***************************************************************************)
KeyRounds == 2

NextKeys ==
  \/ LoadWasm
  \/ MountPixi
  \/ StartRoundWithin(KeyRounds, {2}, {Sec(5)})
  \/ OnNamesTextKeyDown(KeyRounds, {2}, {Sec(5)})
  \/ Reset
  \/ Unmount
  \/ FrameBegin(AgainEnv)
  \/ Tick(AgainEnv)
  \/ FrameEnd

SpecKeys == Init /\ [][NextKeys]_vars

(***************************************************************************)
(* The thresholds of a field in flight: the first frame of a round has run *)
(* its ticks, the marbles stand at any of two depths, and the frame ends   *)
(* with the snapshot that recomputes the thresholds.                       *)
(***************************************************************************)
RankLevels == {P2850.y, P6450.y}

InitRank ==
  \E n \in 1..RankAgents : \E depth \in [1..n -> RankLevels] :
     \E r \in {engineStart([InitClient EXCEPT !.app = TRUE, !.PIXI = TRUE, !.R = TRUE],
                             IdleGame, n, Sec(5), [i \in 1..n |-> 0], 0)} :
     \E g \in {onTickBegin(Quiet(r.game), Sec(1))} :
        /\ game = [g EXCEPT
                    !.accumulatorMs = FRAME_CLAMP_MS - 3 * FIXED_STEP_MS,
                    !.elapsedMs = 3 * FIXED_STEP_MS,
                    !.marbles = [i \in 1..n |->
                                   [@[i] EXCEPT !.body = [x |-> CUP_X, y |-> depth[i]],
                                                !.progressY = depth[i],
                                                !.lastProgressY = depth[i],
                                                !.lastY = depth[i],
                                                !.lastMovedAtMs = Sec(1)]]]
        /\ client = r.client
        /\ now = Sec(1)
        /\ ticker = TRUE
        /\ pc = "loop"
        /\ round = 1
        /\ steps = 3
        /\ call = NoCall
        /\ requests = 0

NextRank == FrameEnd

SpecRank == InitRank /\ [][NextRank]_vars

(***************************************************************************)
(* C12  Rank thresholds a handler uses are those of the current tick       *)
(***************************************************************************)
\* C12: whenever a modifier handler tests an agent against a rank threshold, the
\* threshold it reads equals the one the alive agents' progress values give at
\* that moment; no value computed in an earlier tick is used.
C12_ThresholdsOfThisTick ==
  \A k \in DOMAIN game.rankUses :
     game.rankUses[k].used.top30Min = game.rankUses[k].current.top30Min

(***************************************************************************)
(* C13  The three thresholds are the progress at fixed ranks               *)
(***************************************************************************)
\* The least integer that is at least n * tenths / 10.
CeilOfTenths(n, tenths) == CHOOSE c \in 0..n : 10 * c >= n * tenths /\ 10 * (c - 1) < n * tenths

\* The progress of the alive agent at rank k (1 = furthest), ties in any order.
ProgressAtRank(k) ==
  CHOOSE v \in {game.marbles[i].progressY : i \in Alive(game)} :
     /\ Cardinality({i \in Alive(game) : game.marbles[i].progressY > v}) < k
     /\ Cardinality({i \in Alive(game) : game.marbles[i].progressY >= v}) >= k

ThresholdsUpdated == game.emitted # <<>> /\ Alive(game) # {}

\* C13: after updateRankThresholds over n alive agents, the top-10% minimum is
\* the progress at rank max(1, ceil(0.1 n)), the top-30% minimum the progress at
\* rank max(1, ceil(0.3 n)), the bottom-30% maximum the progress at rank
\* n - max(1, ceil(0.3 n)) + 1, and an agent tests top-10%, top-30%, bottom-30%
\* exactly when its progress is at least, at least, at most that value.
C13_RankThresholds ==
  ThresholdsUpdated =>
    LET n == Cardinality(Alive(game))
        r10 == Max(1, CeilOfTenths(n, 1))
        r30 == Max(1, CeilOfTenths(n, 3))
    IN /\ game.top10MinProgress = ProgressAtRank(r10)
       /\ game.top30MinProgress = ProgressAtRank(r30)
       /\ game.bottom30MaxProgress = ProgressAtRank(n - r30 + 1)
       /\ \A i \in Alive(game) :
            /\ isTop10(game, i) <=> game.marbles[i].progressY >= ProgressAtRank(r10)
            /\ isTop30(game, i) <=> game.marbles[i].progressY >= ProgressAtRank(r30)
            /\ isBottom30(game, i) <=> game.marbles[i].progressY <= ProgressAtRank(n - r30 + 1)

\* Eleven alive agents, two of them ahead: rank 2 is ahead, ranks 4 and 8 are not,
\* and an agent of the lower depth is bottom-30% without being top-30%.
C13_Witness ==
  /\ ThresholdsUpdated
  /\ Cardinality(Alive(game)) = 11
  /\ game.top10MinProgress > game.top30MinProgress
  /\ game.top30MinProgress = game.bottom30MaxProgress
  /\ \E i \in Alive(game) : isBottom30(game, i) /\ ~isTop10(game, i)

(***************************************************************************)
(* C14  A start before the collaborators are initialised is rejected       *)
(***************************************************************************)
StartRequested == call'.op = "start"

CollaboratorsReady == client.app /\ client.PIXI /\ client.R

\* C14: a start requested through the hook while the renderer application, the
\* renderer module or the physics module is missing is rejected whole: the
\* request reports no start, no game is created or stored, the client phase and
\* snapshot stay as they were, the ticker stays as it was and nothing is emitted.
C14_StartRejected ==
  [][StartRequested /\ ~CollaboratorsReady =>
       /\ ~call'.ret
       /\ client' = client
       /\ client'.phase # "running"
       /\ game' = Quiet(game)
       /\ game'.phase = "idle"
       /\ ticker' = ticker
       /\ round' = round]_vars

\* A start was refused with the physics module loaded and the renderer missing.
C14_Witness ==
  /\ call = Call("start", <<CamAgents>>, FALSE)
  /\ client.R /\ ~client.app /\ ~client.PIXI
  /\ ~client.game /\ client.phase = "setup"
  /\ game.phase = "idle" /\ game.emitted = <<>>

(***************************************************************************)
(* C15  focusByName: no match is a no-op, a match focuses                  *)
(***************************************************************************)
FocusRequested == requests' = requests + 1 /\ call'.op = "focusByName"

\* The alive agents whose name contains the trimmed name asked for.
FocusMatches(name) ==
  {i \in Alive(game) : client.game /\ trim(name) # <<>> /\ includes(game.marbles[i].name, trim(name))}

\* C15: focusByName with a name that is empty after trimming, or that no alive
\* agent matches, returns false and leaves the whole camera state as it was;
\* with a matching alive agent it returns true and the camera focuses on one.
C15_FocusByName ==
  [][FocusRequested =>
       IF FocusMatches(call'.arg) = {}
       THEN ~call'.ret /\ game'.camera = game.camera
       ELSE /\ call'.ret
            /\ game'.camera.mode = "focus"
            /\ game'.camera.focusId \in FocusMatches(call'.arg)]_vars

\* A request names agent 2 (with blanks around the name) after agent 2 fell out
\* of the world while agent 1 still runs: it returns false and the camera is
\* still in auto mode, with no focus target.
C15_Witness ==
  /\ call = Call("focusByName", <<" ", "a", "b", " ">>, FALSE)
  /\ client.game
  /\ game.phase = "running"
  /\ game.marbles[2].isEliminated /\ ~game.marbles[1].isEliminated
  /\ game.camera.mode = "auto" /\ game.camera.focusId = 0

(***************************************************************************)
(* C16  An eliminated agent stays out of everything                        *)
(***************************************************************************)
\* The kinds of sensor whose handler is part of the model.
Sensors ==
  { [kind |-> "cup", sensor |-> "cup"], [kind |-> "warp", sensor |-> "warp"],
    [kind |-> "boost", sensor |-> "boost"], [kind |-> "slow", sensor |-> "slow"],
    [kind |-> "magnet", sensor |-> "magnet"], [kind |-> "bomb", sensor |-> "bomb"],
    [kind |-> "kicker", sensor |-> "bumper"], [kind |-> "kicker", sensor |-> "mega"] }

NewlyEliminated == {j \in Marbles : ~game.marbles[j].isEliminated /\ game'.marbles[j].isEliminated}

NewlyFinished == {j \in Marbles : j \notin game.cupEntryById /\ j \in game'.cupEntryById}

\* C16: once an agent is eliminated, no later step of the round changes its
\* bookkeeping or counts it: a sensor event for it is a no-op, its body stays
\* released, the scan leaves its record alone, no rank test is made for it, the
\* step's eliminations and finishes are counted without it, and a snapshot lists
\* it, if at all, as a finisher.
C16_EliminatedStaysOut ==
  [][SameRound =>
       \A i \in Marbles : game.marbles[i].isEliminated =>
          /\ game'.marbles[i] = game.marbles[i]
          /\ i \notin game'.marblesByCollider
          /\ i \notin game'.world.bodies
          /\ \A e \in Sensors :
                onSensor(Quiet(game), e.kind, e.sensor, i, now) = Quiet(game)
          /\ \A k \in DOMAIN game'.rankUses : game'.rankUses[k].id # i
          /\ i \notin NewlyEliminated \cup NewlyFinished
          /\ (game'.eliminatedBy.fall + game'.eliminatedBy.cut)
               - (game.eliminatedBy.fall + game.eliminatedBy.cut)
             = Cardinality(NewlyEliminated \ NewlyFinished)
          /\ Len(game'.cupEntries) - Len(game.cupEntries) = Cardinality(NewlyFinished)
          /\ \A k \in DOMAIN game'.emitted :
               /\ game'.emitted[k].snap.aliveCount <= Cardinality(Alive(game))
               /\ \A r \in DOMAIN game'.emitted[k].snap.top10 :
                    game'.emitted[k].snap.top10[r].id = i
                      => game'.emitted[k].snap.top10[r].didFinish]_vars

\* A tick has just run in which the other agent met a warp zone, while agent 1 had
\* fallen out earlier with its warp unused and more progress than the top-30%
\* threshold asks.
C16_Witness ==
  /\ game.phase = "running"
  /\ pc = "loop"
  /\ game.marbles[1].isEliminated /\ 1 \notin game.cupEntryById
  /\ ~game.marbles[1].warpUsed
  /\ game.marbles[1].progressY >= game.top30MinProgress
  /\ game.rankUses # <<>>

(***************************************************************************)
(* C17  Only a finisher's progress reaches the finish depth                *)
(***************************************************************************)
\* C17: while the round is running every agent that has not finished has
\* progressY <= CUP_Y - 1, and in every snapshot each finisher row (progress
\* CUP_Y) has strictly greater progress than every non-finisher row.
C17_FinishersAhead ==
  /\ game.phase = "running" =>
       \A i \in Marbles : i \notin game.cupEntryById => game.marbles[i].progressY <= CUP_Y - 1
  /\ \A k \in DOMAIN game.emitted :
       LET rows == game.emitted[k].snap.top10
       IN \A a, b \in DOMAIN rows :
            rows[a].didFinish /\ ~rows[b].didFinish
              => rows[a].progressY = CUP_Y /\ rows[a].progressY > rows[b].progressY

\* A snapshot lists a finisher and an agent that lies deeper than the cup's
\* centre without having finished: its progress stopped one pixel short.
C17_Witness ==
  /\ game.phase = "running"
  /\ \E k \in DOMAIN game.emitted :
       LET rows == game.emitted[k].snap.top10
       IN \E a, b \in DOMAIN rows :
            /\ rows[a].didFinish /\ ~rows[b].didFinish
            /\ rows[b].progressY = CUP_Y - 1
            /\ game.marbles[rows[b].id].body.y > CUP_Y
            /\ ~game.marbles[rows[b].id].isEliminated

(***************************************************************************)
(* C18  The leaderboard of a snapshot                                      *)
(***************************************************************************)
\* The alive agents that are not in the finish record.
StillRacing == {i \in Alive(game) : i \notin game.cupEntryById}

\* Row a stands before agent j in the order of the alive field: more progress,
\* or the same progress and an earlier place in the list of marbles.
RowAhead(row, j) ==
  \/ row.progressY > game.marbles[j].progressY
  \/ row.progressY = game.marbles[j].progressY /\ row.id < j

\* C18: in every emitted snapshot the leaderboard has at most 10 rows, pairwise
\* distinct ids and ranks 1..k in row order; the finisher rows come first, in the
\* order of the finish record; the other rows follow by non-increasing progress,
\* equal progress in list order.  The snapshot a frame ends with lists the first
\* 10 of the finish record followed by the alive agents that have not finished.
C18_Leaderboard ==
  \A k \in DOMAIN game.emitted :
     LET rows == game.emitted[k].snap.top10
         listed == {rows[a].id : a \in DOMAIN rows}
     IN /\ Len(rows) <= 10
        /\ \A a \in DOMAIN rows : rows[a].rank = a
        /\ \A a, b \in DOMAIN rows : a # b => rows[a].id # rows[b].id
        /\ \A a \in DOMAIN rows :
             rows[a].didFinish =>
               /\ a <= Len(game.cupEntries) /\ rows[a].id = game.cupEntries[a].id
               /\ \A b \in DOMAIN rows : ~rows[b].didFinish => a < b
        /\ \A a, b \in DOMAIN rows :
             ~rows[a].didFinish /\ ~rows[b].didFinish /\ a < b =>
               \/ rows[a].progressY > rows[b].progressY
               \/ rows[a].progressY = rows[b].progressY /\ rows[a].id < rows[b].id
        /\ ~game.emitted[k].force =>
             /\ Len(rows) = Min(10, Len(game.cupEntries) + Cardinality(StillRacing))
             /\ \A a \in DOMAIN rows :
                  IF a <= Len(game.cupEntries) THEN rows[a].didFinish
                  ELSE /\ rows[a].id \in StillRacing
                       /\ rows[a].progressY = game.marbles[rows[a].id].progressY
                       /\ \A j \in StillRacing \ listed : RowAhead(rows[a], j)

\* A frame ended with a full leaderboard: finishers, then agents that have not
\* finished, two of them level, while further agents are left out.
C18_Witness ==
  \E k \in DOMAIN game.emitted :
     LET rows == game.emitted[k].snap.top10
     IN /\ ~game.emitted[k].force
        /\ Len(rows) = 10
        /\ rows[1].didFinish /\ ~rows[10].didFinish
        /\ rows[9].progressY = rows[10].progressY
        /\ Cardinality(StillRacing) + Len(game.cupEntries) > 10

(***************************************************************************)
(* C19  Snapshots are throttled unless forced                              *)
(***************************************************************************)
\* The time of the emission before the k-th one of the step.
EmittedBefore(k) == IF k = 1 THEN game.lastUiEmitMs ELSE game'.emitted[k - 1].atMs

\* The forced snapshots the step delivers at its own time.
ForcedNow ==
  {game'.emitted[k].snap : k \in {k \in DOMAIN game'.emitted :
                                   game'.emitted[k].force /\ game'.emitted[k].atMs = now'}}

\* C19: a non-forced snapshot is emitted only when at least 100 ms have passed
\* since the snapshot emitted before it, forced or not (lastUiEmitMs is the time
\* of the latest emission); the round's start, the winner, the switch to fast
\* forward, the start of the finish sequence and the round's end each deliver a
\* forced snapshot in the same step, and the hook holds the last one delivered.
C19_Throttle ==
  [][/\ \A k \in DOMAIN game'.emitted :
          ~game'.emitted[k].force => game'.emitted[k].atMs - EmittedBefore(k) >= Msec(100)
     /\ game'.lastUiEmitMs = IF game'.emitted = <<>> THEN game.lastUiEmitMs
                              ELSE game'.emitted[Len(game'.emitted)].atMs
     /\ game'.emitted # <<>> => client'.uiSnap = game'.emitted[Len(game'.emitted)].snap
     /\ round' = round + 1 => (\E snap \in ForcedNow : snap.phase = "running")
     /\ SameRound /\ game.onUi =>
          /\ game.winner = Null /\ game'.winner # Null => (\E snap \in ForcedNow : snap.winner # Null)
          /\ ~game.fastForwardOn /\ game'.fastForwardOn => (\E snap \in ForcedNow : snap.fastForward # Null)
          /\ game.finishState = Null /\ game'.finishState # Null => (\E snap \in ForcedNow : snap.postFinish # Null)
          /\ game.phase = "running" /\ game'.phase = "finished" => (\E snap \in ForcedNow : snap.phase = "finished")]_vars

\* A frame ended with a non-forced snapshot, a tenth of a second or more after
\* the latest one, and began the finish sequence, which forced a second snapshot
\* at the same time; the hook holds the second.
C19_Witness ==
  /\ pc = "idle" /\ game.phase = "running"
  /\ Len(game.emitted) = 2
  /\ ~game.emitted[1].force /\ game.emitted[2].force
  /\ game.emitted[1].atMs = now /\ game.emitted[2].atMs = now
  /\ game.emitted[1].snap.postFinish = Null /\ game.emitted[2].snap.postFinish # Null
  /\ client.uiSnap = game.emitted[2].snap

(***************************************************************************)
(* C20  destroy tears the round down                                       *)
(***************************************************************************)
\* The step destroys the game: engine.reset, or the renderer's cleanup with a game.
Destroyed == ~client'.game /\ (call'.op = "reset" \/ client.game)

\* C20: after destroy (reset) the phase is idle, the tick callback is detached
\* and the UI callback cleared; agents, finish record, winner, finish state,
\* pending cut, thresholds and camera are at their initial values, and a second
\* destroy changes nothing.  While the game is idle, every step but a start
\* leaves it as it is: no tick runs and no snapshot is delivered.
C20_DestroyTearsDown ==
  [][/\ Destroyed =>
          /\ game'.phase = "idle" /\ ~ticker' /\ ~game'.onUi
          /\ game'.world = Null /\ ~game'.worldContainer
          /\ game'.marbles = <<>> /\ game'.marblesByCollider = {}
          /\ game'.cupEntries = <<>> /\ game'.cupEntryById = {}
          /\ game'.winner = Null /\ game'.finishState = Null /\ game'.cutState = Null
          /\ game'.checkpointIndex = 0 /\ game'.eliminatedBy = [fall |-> 0, cut |-> 0]
          /\ game'.timeScale = 10 /\ ~game'.fastForwardOn
          /\ game'.camera = InitCamera
          /\ game'.emitted = <<>>
          /\ destroy(game') = game'
     /\ call'.op = "reset" => client'.phase = "setup" /\ client'.uiSnap = Null
     /\ game.phase = "idle" /\ round' = round =>
          /\ game' = Quiet(game)
          /\ steps' = steps /\ pc' = "idle" /\ ~ticker'
          /\ client'.uiSnap \in {client.uiSnap, Null}]_vars

\* A round in which ticks ran and the camera was moved by hand has been reset.
C20_Witness ==
  /\ call = Call("reset", <<>>, TRUE)
  /\ game.phase = "idle" /\ ~ticker /\ ~client.game
  /\ round = 1 /\ steps > 0 /\ game.elapsedMs > 0
  /\ requests = MaxRequests
  /\ game.camera = InitCamera

(***************************************************************************)
(* C21  start begins a clean round                                         *)
(***************************************************************************)
\* The step is a start that was carried out.
Started == call'.op = "start" /\ call'.ret /\ round' = round + 1

\* The per-round state of g other than the rank thresholds is the initial one,
\* the phase is running and every spawned agent is alive.
CleanRound(g) ==
  /\ g.phase = "running"
  /\ g.cupEntries = <<>> /\ g.cupEntryById = {}
  /\ g.winner = Null /\ g.finishState = Null
  /\ g.eliminatedBy = [fall |-> 0, cut |-> 0]
  /\ g.checkpointIndex = 0 /\ g.cutState = Null
  /\ g.timeScale = 10 /\ g.slowMoUntilMs = 0 /\ g.slowMoCooldownUntilMs = 0
  /\ ~g.fastForwardOn
  /\ g.camera = InitCamera
  /\ g.elapsedMs = 0 /\ g.accumulatorMs = 0
  /\ Len(g.marbles) > 0
  /\ \A i \in DOMAIN g.marbles :
        /\ ~g.marbles[i].isEliminated /\ ~g.marbles[i].warpUsed
        /\ i \in g.marblesByCollider /\ i \in g.world.bodies

\* The three thresholds at the values of their initialisers.
InitialThresholds ==
  [top10Min |-> POSITIVE_INFINITY, top30Min |-> POSITIVE_INFINITY,
   bottom30Max |-> NEGATIVE_INFINITY]

HardStop ==
  /\ pc = "loop" /\ pc' = "idle"
  /\ game.finishState # Null /\ now >= game.finishState.stopAtMs

\* C22: the phase changes only from idle to running by a start, from running to
\* finished by the hard stop of a started finish sequence, and to idle by
\* destroy; a start, which destroys first, leaves it running.  So running never
\* becomes finished without a finish sequence and finished never becomes
\* running without a start.
C22_PhaseTransitions ==
  [][/\ game'.phase # game.phase =>
          \/ Started /\ game'.phase = "running"
          \/ game.phase = "running" /\ game'.phase = "finished" /\ HardStop
          \/ game'.phase = "idle" /\ Destroyed
     /\ Started => game'.phase = "running"
     /\ Destroyed => game'.phase = "idle"
     /\ game.phase = "idle" /\ game'.phase # "idle" => Started
     /\ game.phase = "finished" /\ game'.phase = "running" => Started
     /\ game.phase = "running" /\ game'.phase = "finished" =>
          game.finishState # Null /\ game'.finishState = Null /\ ~ticker']_vars

\* A round that was started from idle has gone from running to finished at the
\* hard stop of its finish sequence: the ticker is detached and the page shows
\* the finished phase.
C22_Witness ==
  /\ round = 1 /\ game.phase = "finished" /\ client.phase = "finished"
  /\ game.winner # Null /\ game.finishState = Null /\ ~ticker
  /\ now >= game.startedAtMs + Sec(5) + POST_FINISH_RUN_MS

(***************************************************************************)
(* The race of a wedged marble: marble 1 may go straight into the finish   *)
(* area, marble 2 rests at its spawn, slow or fast, over frames a second   *)
(* apart.                                                                  *)
(***************************************************************************)
StuckAgents == 2
StuckTicks == 5
StuckNowSec == 8

\* Every body fast, or marble 2 nearly at rest (below the rescue speed of 28).
StuckSpeeds ==
  {[i \in 1..StuckAgents |-> IF i = 2 THEN v ELSE 1000] : v \in {0, 1000}}

StuckEnv ==
  Env({1}, [i \in {1} |-> <<P8965>>], [i \in {1} |-> {}],
      StuckSpeeds, {FIXED_STEP_MS, Sec(1)}, StuckTicks, StuckNowSec)

NextStuck ==
  \/ LoadWasm
  \/ MountPixi
  \/ StartRound({StuckAgents}, {Sec(5)})
  \/ FrameBegin(StuckEnv)
  \/ Tick(StuckEnv)
  \/ FrameEnd

SpecStuck == Init /\ [][NextStuck]_vars

(***************************************************************************)
(* C23  No agent stays stuck forever                                       *)
(***************************************************************************)
RESCUE_AFTER_MS == Msec(1400)
RESCUE_COOLDOWN_MS == Msec(1800)

\* Marble i's rescue is due at nowMs: its last move or rescue is more than 1.4 s
\* back and the cooldown of its last rescue is over.
RescueDue(m, nowMs) ==
  nowMs >= m.rescueCooldownUntilMs /\ nowMs - m.lastMovedAtMs > RESCUE_AFTER_MS

\* The tick took m to m2 by a rescue: a kick on the first strike, a teleport to
\* the top on the second.
Rescued(m, m2, nowMs) ==
  /\ m2.lastMovedAtMs = nowMs
  /\ m2.rescueCooldownUntilMs = nowMs + RESCUE_COOLDOWN_MS
  /\ IF m.rescueCount = 0 THEN m2.rescueCount = 1 /\ m2.body = m.body
     ELSE m2.rescueCount = 0 /\ m2.body = RescueSpawn

\* The marble whose hard finish check returned from the scan s.
Returner(s) == s.g.cupEntries[Len(s.g.cupEntries)].id

\* C23: in every simulation tick, every alive agent that is nearly stationary
\* (speed below 28), has made no progress and whose rescue is due (more than
\* 1.4 s since it last moved or was rescued, 1.8 s since its last rescue) is
\* rescued in that very tick, by a kick or, on the second strike, a teleport;
\* the one exception is a tick whose scan the hard finish check of an agent
\* before it cut short, which leaves one alive agent fewer, so it can only
\* happen as often as there are other agents.  A rescue is never further away
\* than 1.8 s from the agent's last move.
C23_StuckAgentsAreRescued ==
  /\ \A i \in Alive(game) :
        game.marbles[i].rescueCooldownUntilMs
          <= game.marbles[i].lastMovedAtMs + RESCUE_COOLDOWN_MS
  /\ (pc = "loop" /\ loopCondition(game)) =>
        \A inp \in TickInputs(game, StuckEnv, steps) :
          \A i \in Alive(onTickStep(game, now, inp)) :
            ( /\ inp.speed[i] < 28
              /\ RescueDue(game.marbles[i], now)
              /\ onTickStep(game, now, inp).marbles[i].lastProgressY
                   = game.marbles[i].lastProgressY )
            => \/ Rescued(game.marbles[i], onTickStep(game, now, inp).marbles[i], now)
               \/ /\ stepOnceScan(game, now, inp).returned
                  /\ Returner(stepOnceScan(game, now, inp)) < i
                  /\ Cardinality(Alive(onTickStep(game, now, inp)))
                       < Cardinality(Alive(game))

\* Marble 2, wedged at its spawn, has been kicked and then, still wedged,
\* teleported to the top, in a round in which marble 1 reached the finish area.
C23_Witness ==
  /\ game.phase = "running" /\ 2 \in Alive(game)
  /\ game.marbles[2].body = RescueSpawn /\ game.marbles[2].rescueCount = 0
  /\ game.marbles[2].lastMovedAtMs = now
  /\ game.marbles[2].rescueCooldownUntilMs = now + RESCUE_COOLDOWN_MS
  /\ now - game.startedAtMs >= RESCUE_AFTER_MS + RESCUE_COOLDOWN_MS
  /\ 1 \in game.cupEntryById

(***************************************************************************)
(* C24  Manual mode has the highest priority                               *)
(***************************************************************************)
\* C24: within a round, a step that finds the camera manual and ends before
\* manualUntilMs leaves the camera manual, whatever request or frame it is.
C24_ManualHasPriority ==
  [][(SameRound /\ game.camera.mode = "manual" /\ now' < game.camera.manualUntilMs)
       => game'.camera.mode = "manual"]_vars

(***************************************************************************)
(* The race of a crowd whose leader misses the cup sensor: marble 1 runs   *)
(* past checkpoint 1 and then into the finish area, 115 px above the cup   *)
(* centre, where only the hard finish check of the scan sees it.           *)
(***************************************************************************)
HardFinishEnv ==
  Env({1}, [i \in {1} |-> <<P2850, P8965>>], [i \in {1} |-> {}],
      FastSpeeds(CutAgents), FrameDeltas, CutTicks, MaxNowSec)

NextHardFinish ==
  \/ LoadWasm
  \/ MountPixi
  \/ StartRound({CutAgents}, {Sec(5)})
  \/ FrameBegin(HardFinishEnv)
  \/ Tick(HardFinishEnv)
  \/ FrameEnd

SpecHardFinish == Init /\ [][NextHardFinish]_vars

(***************************************************************************)
(* C25  The pending cut is applied at its deadline                         *)
(***************************************************************************)
\* The step is one simulation tick (one call of stepOnce).
SimTick == pc = "loop" /\ steps' = steps + 1

\* C25: a simulation tick that finds a cut pending whose deadline has come
\* clears the pending cut and raises checkpointIndex by exactly one, whether or
\* not an agent finishes in that tick.
C25_CutAppliedAtDeadline ==
  [][(SimTick /\ game.cutState # Null /\ now >= game.cutState.endsAtMs)
       => /\ game'.cutState = Null
          /\ game'.checkpointIndex = game.checkpointIndex + 1]_vars

(***************************************************************************)
(* C26  Every simulation tick runs to completion                           *)
(***************************************************************************)
\* C26: whatever the solver does in a tick, the scan of that tick reaches every
\* agent that is alive at its end (each one has been counted, after its gate
\* and out-of-bounds checks, and has had its progress and stuck checks), and the
\* tick ends with the checkpoint-cut step and the golden-moment step run on
\* what the scan left, also when an agent reaches the finish area in that tick.
C26_TicksRunToCompletion ==
  (pc = "loop" /\ loopCondition(game)) =>
    \A inp \in TickInputs(game, HardFinishEnv, steps) :
      /\ stepOnceScan(game, now, inp).aliveCount
           = Cardinality(Alive(stepOnceScan(game, now, inp).g))
      /\ stepOnce(game, now, inp)
           = stepOnceAfterScan([stepOnceScan(game, now, inp) EXCEPT !.returned = FALSE], now)

(***************************************************************************)
(* The golden moment: twelve agents, nine of them in the cup; agents 1 and *)
(* 2 come to rest in the final stretch, 50 px apart in depth and within    *)
(* 240 px of the cup, agent 3 stays at its spawn, stops early in the final *)
(* stretch or enters the cup.  The jet bands are no longer active.         *)
(***************************************************************************)
GoldenAgents == 12
GoldenTicks == 6
GoldenStartSec == 72
GoldenNowSec == 84

G8900 == [x |-> 640, y |-> 8900]    \* final stretch, 180 px above the cup centre
G8850 == [x |-> 500, y |-> 8850]    \* final stretch, 50 px above G8900
G8600 == [x |-> 640, y |-> 8600]    \* final stretch (from 8560 on), 300 px above G8900

GoldenEnv ==
  Env({1, 2, 3},
      [i \in {1, 2, 3} |-> IF i = 1 THEN <<G8900>>
                           ELSE IF i = 2 THEN <<G8850>> ELSE <<G8600, P9000>>],
      [i \in {1, 2, 3} |-> {}],
      FastSpeeds(GoldenAgents), {Sec(1)}, GoldenTicks, GoldenNowSec)

\* The round was started at 0; its first frame comes 72 s later and its first
\* tick has run: the solver took agents 4..12 into the cup sensor.
InitGolden ==
  \E descending \in BOOLEAN, speed \in GoldenEnv.speeds :
     \E r \in {engineStart([InitClient EXCEPT !.app = TRUE, !.PIXI = TRUE, !.R = TRUE],
                             IdleGame, GoldenAgents, Sec(90),
                             [i \in 1..GoldenAgents |-> 0], 0)} :
     \E g2 \in {onTickStep(Quiet(onTickBegin(Quiet(r.game), Sec(GoldenStartSec))),
                            Sec(GoldenStartSec),
                            [moves |-> [i \in 4..GoldenAgents |-> P9000],
                             jackpot |-> {}, descending |-> descending,
                             speed |-> speed])} :
        /\ game = g2
        /\ client = onUi(r.client, g2.emitted, 1)
        /\ now = Sec(GoldenStartSec)
        /\ ticker = TRUE
        /\ pc = "loop"
        /\ round = 1
        /\ steps = 1
        /\ call = NoCall
        /\ requests = 0

NextGolden ==
  \/ FrameBegin(GoldenEnv)
  \/ Tick(GoldenEnv)
  \/ FrameEnd

SpecGolden == InitGolden /\ [][NextGolden]_vars

(***************************************************************************)
(* C27  When slow motion starts and ends                                   *)
(***************************************************************************)
SLOW_MO_MS == Sec(3)
SLOW_MO_COOLDOWN_MS == Sec(7)

\* The step starts a slow-motion window (maybeStartSlowMo is the only writer of
\* slowMoUntilMs within a round).
SlowMoStarted == SameRound /\ game'.slowMoUntilMs # game.slowMoUntilMs

\* C27: slow motion starts only in a simulation tick, with fewer than ten
\* entries in the finish record, with the time scale at 1 (a window that expires
\* in that tick is first closed) and, if slow motion started before, at least 7 s
\* after that start; it sets the time scale to 0.2 for 3 s.  The first tick at or
\* after the end of a window puts the time scale back, so that no frame ends
\* in slow motion past its window; the time scale is 0.2, 1 or 20.
C27_SlowMotionWindows ==
  /\ [](game.world # Null =>
          /\ game.timeScale \in {2, 10, FAST_FORWARD_SCALE}
          /\ (pc = "idle" /\ game.phase = "running" /\ game.timeScale < 10)
               => now < game.slowMoUntilMs)
  /\ [][SlowMoStarted =>
          /\ SimTick
          /\ Len(game.cupEntries) < TOP10_FINISHERS_TARGET
          /\ Len(game'.cupEntries) < TOP10_FINISHERS_TARGET
          /\ game.timeScale = 10 \/ (game.timeScale < 10 /\ now >= game.slowMoUntilMs)
          /\ now >= game.slowMoCooldownUntilMs
          /\ game.slowMoUntilMs # 0 =>
               now >= (game.slowMoUntilMs - SLOW_MO_MS) + SLOW_MO_COOLDOWN_MS
          /\ game'.timeScale = 2
          /\ game'.slowMoUntilMs = now + SLOW_MO_MS
          /\ game'.slowMoCooldownUntilMs = now + SLOW_MO_COOLDOWN_MS]_vars
  /\ [][(SimTick /\ game.timeScale < 10 /\ now >= game.slowMoUntilMs)
          => game'.timeScale >= 10 \/ SlowMoStarted]_vars

\* A second slow-motion window has just started, 7 s or more after the first
\* (the agents have been at rest since second 74, so the first one started by
\* then), with nine entries in the finish record.
C27_Witness ==
  /\ game.phase = "running" /\ game.timeScale = 2
  /\ game.slowMoUntilMs = now + SLOW_MO_MS
  /\ now >= Sec(GoldenStartSec) + SLOW_MO_COOLDOWN_MS
  /\ Len(game.cupEntries) = TOP10_FINISHERS_TARGET - 1

(***************************************************************************)
(* C28  When slow motion must start                                        *)
(***************************************************************************)
FINAL_STRETCH == 520
DEPTH_TOLERANCE == 70
FINISH_RADIUS == 240

\* The detector is armed in game g at nowMs.
Armed(g, nowMs) ==
  /\ g.phase = "running" /\ nowMs >= g.slowMoCooldownUntilMs
  /\ g.timeScale = 10 /\ Len(g.cupEntries) < TOP10_FINISHERS_TARGET

\* Two of the first three of the scan s are alive, in the final stretch, within
\* the depth tolerance of each other, and one of the two is within the finish
\* radius.
ClosePair(s) ==
  \E i, j \in {s.top1, s.top2, s.top3} \ {0} :
     /\ i # j
     /\ ~s.g.marbles[i].isEliminated /\ ~s.g.marbles[j].isEliminated
     /\ s.g.marbles[i].progressY >= CUP_Y - FINAL_STRETCH
     /\ s.g.marbles[j].progressY >= CUP_Y - FINAL_STRETCH
     /\ s.g.marbles[i].body.y - s.g.marbles[j].body.y <= DEPTH_TOLERANCE
     /\ s.g.marbles[j].body.y - s.g.marbles[i].body.y <= DEPTH_TOLERANCE
     /\ Dist2(s.g.marbles[i].body, CUP_X, CUP_Y) < FINISH_RADIUS * FINISH_RADIUS

\* C28: in every tick whose scan leaves the detector armed and finds two of the
\* first three alive agents in the final stretch, within the depth tolerance of
\* each other and one of them within the finish radius, slow motion starts,
\* wherever the third of the first three is.
C28_SlowMotionStartsForAPair ==
  (pc = "loop" /\ loopCondition(game)) =>
    \A inp \in TickInputs(game, GoldenEnv, steps) :
      (Armed(stepOnceScan(game, now, inp).g, now) /\ ClosePair(stepOnceScan(game, now, inp)))
        => /\ stepOnce(game, now, inp).timeScale = 2
           /\ stepOnce(game, now, inp).slowMoUntilMs = now + SLOW_MO_MS

(***************************************************************************)
(* C29  Warp: once, for the top 30 % only                                  *)
(***************************************************************************)
\* tryWarp turns a trigger on marble i of g down: the marble has warped, or its
\* progress is below the top-30 % threshold isTop30 reads.
WarpRefused(g, i) ==
  g.marbles[i].warpUsed \/ ~isTop30(ensureRankThresholds(g), i)

\* C29: within a round a marble is warped at most once (once warpUsed is set it
\* stays set and the marble's progress is never re-based again), and only in a
\* tick in which, when tryWarp tested it, its progress was at or above the least
\* progress of the top 30 % of the agents alive at that moment; the warp leaves
\* lastProgressY at the re-based progress and lastMovedAtMs at the tick's time;
\* and a warp trigger that is turned down changes nothing.
C29_WarpOnceForTop30 ==
  /\ [][SameRound =>
          \A i \in Marbles :
             /\ Warped(i) =>
                  /\ SimTick
                  /\ \E k \in DOMAIN game'.rankUses :
                        /\ game'.rankUses[k].id = i
                        /\ game'.rankUses[k].progressY
                              >= game'.rankUses[k].current.top30Min
                  /\ game'.marbles[i].lastProgressY = game'.marbles[i].progressY
                  /\ game'.marbles[i].lastProgressY = WARP_Y
                  /\ game'.marbles[i].lastMovedAtMs = now
             /\ game.marbles[i].warpUsed =>
                  /\ game'.marbles[i].warpUsed
                  /\ game'.marbles[i].progressY >= game.marbles[i].progressY]_vars
  /\ [](game.world # Null =>
          \A i \in Alive(game) :
             WarpRefused(game, i) => Quiet(tryWarp(game, i, now)) = Quiet(game))

(***************************************************************************)
(* The modifier zones: marble 1 runs through the magnet pit, a bumper and  *)
(* the slow pad, marble 2 through the slow pad, the bomb zone and the      *)
(* speed pad.                                                              *)
(***************************************************************************)
ModAgents == 2
ModTicks == 3
ModNowSec == 3

Z5600 == [x |-> 820, y |-> 5600]    \* the centre of the magnet pit
Z6100 == [x |-> 690, y |-> 6100]    \* 50 px beside the bumper at (640, 6100)
Z7060 == [x |-> 640, y |-> 7060]    \* on the slow pad
Z7720 == [x |-> 1040, y |-> 7720]   \* the centre of the bomb zone
Z8420 == [x |-> 640, y |-> 8420]    \* on the speed pad

ModEnv ==
  Env({1, 2},
      [i \in {1, 2} |-> IF i = 1 THEN <<Z5600, Z6100, Z7060>>
                                 ELSE <<Z7060, Z7720, Z8420>>],
      [i \in {1, 2} |-> {}],
      FastSpeeds(ModAgents), {FIXED_STEP_MS, Sec(1)}, ModTicks, ModNowSec)

NextModifiers ==
  \/ LoadWasm
  \/ MountPixi
  \/ StartRound({ModAgents}, {Sec(5)})
  \/ FrameBegin(ModEnv)
  \/ Tick(ModEnv)
  \/ FrameEnd

SpecModifiers == Init /\ [][NextModifiers]_vars

(***************************************************************************)
(* C30  A modifier trigger delivered twice at one tick time                *)
(***************************************************************************)
ModifierSensors == {e \in Sensors : e.kind # "cup"}
ZoneGuarded == {"slow", "magnet", "bomb"}

\* C30: delivering a modifier's trigger a second time at the same tick time
\* changes nothing beyond what the first delivery did: for the same marble
\* with every modifier (boost, kicker and warp are guarded per marble), and for
\* any marble of the same zone with the slow pad, the magnet pit and the bomb
\* zone (guarded per zone).
C30_ModifiersIdempotentWithinTick ==
  game.world # Null =>
    \A e \in ModifierSensors : \A i \in Marbles :
       LET again(once) ==
             /\ Quiet(onSensor(once, e.kind, e.sensor, i, now)) = Quiet(once)
             /\ e.kind \in ZoneGuarded =>
                  \A j \in Marbles :
                     Quiet(onSensor(once, e.kind, e.sensor, j, now)) = Quiet(once)
       IN again(onSensor(game, e.kind, e.sensor, i, now))

\* In one frame the slow pad has fired and a marble was boosted on the speed pad.
C30_Witness ==
  /\ pc = "loop"
  /\ game.slowByHandle["slow"].lastAtMs = now
  /\ \E i \in Marbles :
        /\ game.marbles[i].boostCooldownUntilMs = now + Msec(900)
        /\ game.marbles[i].impulses > 0

(***************************************************************************)
(* The speed pad: one or two marbles run down to it, marble 2 may pass on. *)
(***************************************************************************)
BoostAgents == 2
BoostTicks == 4
BoostNowSec == 3

BoostEnv ==
  Env({1, 2},
      [i \in {1, 2} |-> IF i = 1 THEN <<Z7060, Z8420>> ELSE <<Z7720, Z8420, P8965>>],
      [i \in {1, 2} |-> {}],
      {[i \in 1..2 |-> 1000]}, {FIXED_STEP_MS, Sec(1)}, BoostTicks, BoostNowSec)

NextBoost ==
  \/ LoadWasm
  \/ MountPixi
  \/ StartRound({1, BoostAgents}, {Sec(5)})
  \/ FrameBegin(BoostEnv)
  \/ Tick(BoostEnv)
  \/ FrameEnd

SpecBoost == Init /\ [][NextBoost]_vars

(***************************************************************************)
(* C31  The response of the speed pad follows the rank                     *)
(***************************************************************************)
\* Marble i's boost passes its cooldown in this step.
Boosted(i) ==
  game'.marbles[i].boostCooldownUntilMs # game.marbles[i].boostCooldownUntilMs

\* The response the ranks call for, u being the note of the handler's rank test:
\* the marble's progress against the thresholds of the marbles alive then.
ResponseByRank(u) ==
  IF u.progressY <= u.current.bottom30Max THEN "catchup"
  ELSE IF u.progressY >= u.current.top10Min THEN "debuff"
  ELSE "mid"

\* C31: a boost trigger that passes the marble's cooldown applies exactly one
\* response (one write of the velocity): the catch-up if the marble is in the
\* bottom 30 % of the alive marbles, else the leader debuff if it is in the top
\* 10 %, else the mid-pack boost; the only alive marble gets the catch-up.
C31_BoostResponseByRank ==
  [][SameRound =>
       \A i \in Marbles :
          Boosted(i) =>
            /\ SimTick
            /\ game'.marbles[i].impulses = game.marbles[i].impulses + 1
            /\ \E k \in DOMAIN game'.rankUses :
                  /\ game'.rankUses[k].id = i
                  /\ game'.marbles[i].boost = ResponseByRank(game'.rankUses[k])
            /\ Cardinality(Alive(game)) = 1 => game'.marbles[i].boost = "catchup"]_vars

(***************************************************************************)
(* The magnet pit: marble 1 runs into the pit, marble 2 down to the slow   *)
(* pad, in either order and in one frame or two.                           *)
(***************************************************************************)
MagnetAgents == 2
MagnetTicks == 4
MagnetNowSec == 3

MagnetEnv ==
  Env({1, 2},
      [i \in {1, 2} |-> IF i = 1 THEN <<Z5600>> ELSE <<Z7060>>],
      [i \in {1, 2} |-> {}],
      FastSpeeds(MagnetAgents), {FIXED_STEP_MS, Sec(1)}, MagnetTicks, MagnetNowSec)

NextMagnet ==
  \/ LoadWasm
  \/ MountPixi
  \/ StartRound({MagnetAgents}, {Sec(5)})
  \/ FrameBegin(MagnetEnv)
  \/ Tick(MagnetEnv)
  \/ FrameEnd

SpecMagnet == Init /\ [][NextMagnet]_vars

(***************************************************************************)
(* C32  The magnet pit and the marbles outside the top 10 %                *)
(***************************************************************************)
\* In this step the solver puts marble i into the sensor of the magnet pit, so
\* the tick's event queue holds its magnet trigger.
EntersMagnet(i) ==
  /\ SimTick
  /\ ~InSensor("magnet", "magnet", game.marbles[i].body)
  /\ game.marbles[i].isEliminated = FALSE
  /\ \E mv \in MoveSets(game, MagnetEnv, MagnetEnv.movers \cap game.world.bodies) :
        /\ InSensor("magnet", "magnet", mv[i])
        /\ game'.marbles[i].body = mv[i]

\* Marble i of g is outside the top 10 % of the alive marbles of g.
OutsideTop10(g, i) ==
  g.marbles[i].progressY < Thresholds(updateRankThresholds(g)).top10Min

\* C32: a magnet trigger by a marble that is not in the top 10 % changes nothing:
\* not the marble's velocity (no write of it) and magnet-pull fields, and
\* not the cooldown timestamp of the zone, which therefore still catches a top
\* 10 % marble that enters right afterwards.
C32_MagnetIgnoresOthers ==
  [][SameRound =>
       \A i \in Marbles :
          (EntersMagnet(i) /\ OutsideTop10(game, i)) =>
            /\ game'.marbles[i].impulses = game.marbles[i].impulses
            /\ game'.marbles[i].magnetUntilMs = game.marbles[i].magnetUntilMs
            /\ game'.marbles[i].magnetX = game.marbles[i].magnetX
            /\ game'.marbles[i].magnetY = game.marbles[i].magnetY
            /\ game'.magnetByHandle = game.magnetByHandle]_vars

(***************************************************************************)
(* One marble that may wedge (speed 0) at its spawn and past checkpoint 1, *)
(* and may run on in between.                                              *)
(***************************************************************************)
RescueAgents == 1
RescueTicks == 9
RescueNowSec == 6

RescueEnv ==
  Env({1}, [i \in {1} |-> <<P2850, P5300>>], [i \in {1} |-> {}],
      {[i \in 1..RescueAgents |-> v] : v \in {0, 1000}},
      {Sec(1)}, RescueTicks, RescueNowSec)

NextRescue ==
  \/ LoadWasm
  \/ MountPixi
  \/ StartRound({RescueAgents}, {Sec(5)})
  \/ FrameBegin(RescueEnv)
  \/ Tick(RescueEnv)
  \/ FrameEnd

SpecRescue == Init /\ [][NextRescue]_vars

(***************************************************************************)
(* C33  Kick, then teleport                                                *)
(***************************************************************************)
\* This step rescues marble i: it sets the cooldown of its rescue.
RescuedNow(i) ==
  /\ game'.marbles[i].rescueCooldownUntilMs # 0
  /\ game'.marbles[i].rescueCooldownUntilMs # game.marbles[i].rescueCooldownUntilMs

\* This step detects forward progress of marble i (no warp zone is on the course).
ProgressDetected(i) ==
  game'.marbles[i].lastProgressY # game.marbles[i].lastProgressY

ClockAgents == 1
ClockTicks == 3
ClockNowSec == 2

ClockDeltas == {FIXED_STEP_MS - 2, FIXED_STEP_MS, Sec(1)}

ClockEnv ==
  Env({1, 2}, [i \in {1, 2} |-> <<P2850, P5300>>], [i \in {1, 2} |-> {}],
      FastSpeeds(ClockAgents), ClockDeltas, ClockTicks, ClockNowSec)

NextClock ==
  \/ LoadWasm
  \/ MountPixi
  \/ StartRound({ClockAgents}, {Sec(5)})
  \/ FrameBegin(ClockEnv)
  \/ Tick(ClockEnv)
  \/ FrameEnd

SpecClock == Init /\ [][NextClock]_vars

(***************************************************************************)
(* C34  The accumulator of the fixed step                                  *)
(***************************************************************************)
\* onTick starts a frame of a running round.
FrameStart == pc = "idle" /\ pc' = "loop" /\ game.phase = "running"

\* C34: a frame adds its time since the last frame, clamped to [0, 50 ms], to
\* the accumulator; every tick takes one fixed step from the accumulator and
\* adds it to the elapsed simulation time, which start sets to 0 and nothing
\* else changes (so it is the number of ticks since start times the fixed
\* step); the accumulator is never negative, is below one fixed step between
\* two frames, and after a frame's addition below five fixed steps, so that at
\* most 4 ticks run in the frame.
C34_FixedStepAccumulator ==
  /\ [](game.world # Null =>
          /\ game.accumulatorMs >= 0
          /\ game.accumulatorMs < 5 * FIXED_STEP_MS
          /\ (pc = "idle" /\ game.phase = "running") => game.accumulatorMs < FIXED_STEP_MS)
  /\ [][FrameStart =>
          /\ game'.accumulatorMs - game.accumulatorMs
               = clamp(now' - game.lastTickMs, 0, FRAME_CLAMP_MS)
          /\ game'.accumulatorMs - game.accumulatorMs >= 0
          /\ game'.accumulatorMs - game.accumulatorMs <= Msec(50)
          /\ game'.elapsedMs = game.elapsedMs]_vars
  /\ [][SimTick =>
          /\ game'.accumulatorMs = game.accumulatorMs - FIXED_STEP_MS
          /\ game'.elapsedMs = game.elapsedMs + FIXED_STEP_MS]_vars
  /\ [][Started => game'.elapsedMs = 0 /\ game'.accumulatorMs = 0]_vars
  /\ [][(SameRound /\ ~SimTick) => game'.elapsedMs = game.elapsedMs]_vars

\* The first frame, 2 us short of a fixed step, ran no tick; the second, a
\* stalled one, has run four.
C34_Witness ==
  /\ game.phase = "running" /\ pc = "idle"
  /\ now = game.startedAtMs + FIXED_STEP_MS - 2 + Sec(1)
  /\ game.lastTickMs = now
  /\ game.elapsedMs = 4 * FIXED_STEP_MS
  /\ game.accumulatorMs = 0

PeekSaved ==
  [mode |-> game.camera.mode, x |-> game.camera.x, y |-> game.camera.y,
   focusUntilMs |-> game.camera.focusUntilMs, focusId |-> game.camera.focusId,
   manualUntilMs |-> game.camera.manualUntilMs]

JumpStep == call'.op = "jumpCameraTo" /\ requests' = requests + 1 /\ client.game
PanStep == call'.op = "panCameraBy" /\ requests' = requests + 1 /\ client.game
FocusFound == call'.op = "focusByName" /\ requests' = requests + 1 /\ call'.ret

\* The camera update of a frame that finds the slot filled and the peek over.
PeekOver ==
  /\ CameraUpdate
  /\ Alive(game) # {}
  /\ game.camera.peekReturn # Null
  /\ now >= game.camera.peekUntilMs

\* The same, the frame in which the finish sequence begins left out: there
\* beginFinishSequence, which runs after updateCamera, takes an auto camera
\* to the cup.
PeekExpires ==
  PeekOver /\ ~(game.finishState = Null /\ game'.finishState # Null)

\* A jump fills the slot with the camera as it is and switches to manual.
JumpSaves ==
  JumpStep =>
    /\ game'.camera.peekReturn = PeekSaved
    /\ game'.camera.mode = "manual"
    /\ game'.camera.peekUntilMs = now + call'.arg[3]
    /\ game'.camera.manualUntilMs = now + call'.arg[3]

\* A pan and a focus request that found its agent empty the slot; no other
\* step of a round touches a filled slot before the peek is over.
SlotEmptiedOrKept ==
  /\ (PanStep \/ FocusFound) => game'.camera.peekReturn = Null
  /\ (SameRound /\ game.camera.peekReturn # Null
        /\ ~(JumpStep \/ PanStep \/ FocusFound \/ PeekOver))
       => game'.camera.peekReturn = game.camera.peekReturn

\* The saved focus is over at the time of the restoring update: its window
\* has ended or its agent is no longer alive.
SavedFocusOver(r) ==
  r.mode = "focus" /\ (now >= r.focusUntilMs \/ r.focusId \notin Alive(game))

\* C36 as stated: jumpCameraTo stores the camera's mode, position, focus
\* fields and manual expiry in the one return slot, replacing what was there,
\* and switches to manual; a pan or a successful focus request empties the
\* slot; otherwise the first camera update at or after the peek expiry leaves
\* the camera with exactly the saved mode, focus fields and manual expiry and
\* the slot empty.
C36_PeekRestoresExactly ==
  [][/\ JumpSaves
     /\ SlotEmptiedOrKept
     /\ PeekExpires =>
          /\ game'.camera.peekReturn = Null
          /\ game'.camera.mode = game.camera.peekReturn.mode
          /\ game'.camera.focusId = game.camera.peekReturn.focusId
          /\ game'.camera.focusUntilMs = game.camera.peekReturn.focusUntilMs
          /\ game'.camera.manualUntilMs = game.camera.peekReturn.manualUntilMs]_vars

\* C36, amended: as above, but the restoring update goes on as every camera
\* update does: a restored focus whose window has ended by then, or whose
\* agent is no longer alive, is dropped in the same update, which leaves the
\* camera in auto mode with the focus fields cleared; every other saved state
\* comes back exactly.
C36_PeekRestoresThenSettles ==
  [][/\ JumpSaves
     /\ SlotEmptiedOrKept
     /\ PeekExpires =>
          /\ game'.camera.peekReturn = Null
          /\ game'.camera.peekUntilMs = 0
          /\ game'.camera.manualUntilMs = game.camera.peekReturn.manualUntilMs
          /\ IF SavedFocusOver(game.camera.peekReturn)
             THEN /\ game'.camera.mode = "auto"
                  /\ game'.camera.focusId = 0
                  /\ game'.camera.focusUntilMs = 0
             ELSE /\ game'.camera.mode = game.camera.peekReturn.mode
                  /\ game'.camera.focusId = game.camera.peekReturn.focusId
                  /\ game'.camera.focusUntilMs = game.camera.peekReturn.focusUntilMs]_vars

\* A frame of a running round is about to update the camera: a jump made
\* while the camera was focused on agent 2 has filled the slot, the peek is
\* over and the saved focus is still on.
C36_Witness ==
  /\ pc = "loop" /\ ~loopCondition(game) /\ game.phase = "running"
  /\ game.camera.mode = "manual"
  /\ game.camera.peekReturn # Null
  /\ game.camera.peekReturn.mode = "focus"
  /\ game.camera.peekReturn.focusId = 2
  /\ now >= game.camera.peekUntilMs
  /\ now < game.camera.peekReturn.focusUntilMs
  /\ 2 \in Alive(game)

(***************************************************************************)
(* C37  One game on the ticker                                             *)
(***************************************************************************)
\* A start was asked for from the setup panel, by the button or by the key.
StartAsked == call'.op = "start" /\ pc = "idle" /\ pc' = "idle"

CountsAddUp(s) ==
  /\ s.aliveCount + s.finishedCount + s.eliminatedCount = s.totalCount
  /\ s.eliminatedCount = s.eliminatedBy.fall + s.eliminatedBy.cut

\* C38: in every snapshot delivered, the alive, finished and eliminated
\* counts add up to the total count and the eliminated count is the sum of
\* the falls and the cuts: no agent is counted twice.
C38_SnapshotCountsAddUp ==
  \A k \in 1..Len(game.emitted) : CountsAddUp(game.emitted[k].snap)

(***************************************************************************)
(* C39  No use of a released body                                          *)
(***************************************************************************)
\* C39: no handler reads or writes the body or the collider of an agent the
\* world has released (the scan, the sensor handlers, the bomb, the
\* slow-motion test, the camera and the renderer touch agents that are not
\* eliminated only), an agent is eliminated exactly when the world has
\* released its body and collider, and the collider table holds exactly the
\* agents that are not eliminated.
C39_NoUseAfterRelease ==
  /\ game.staleBodyUses = {}
  /\ game.world # Null =>
       /\ game.marblesByCollider = Alive(game)
       /\ game.world.bodies = Alive(game)
       /\ game.world.colliders = Alive(game)

\* A frame has been rendered with an agent cut, one fallen and one finished;
\* the others are still in the world.
C39_Witness ==
  /\ pc = "idle" /\ game.lastTickMs = now /\ game.world # Null
  /\ game.eliminatedBy.cut >= 1
  /\ game.eliminatedBy.fall >= 1
  /\ Len(game.cupEntries) >= 1
  /\ Alive(game) # {}
  /\ game.staleBodyUses = {}

(***************************************************************************)
(* C40  No way below an active gate without a challenge                    *)
(***************************************************************************)
\* C40: while a gate is active, an agent whose bit for that gate is unset does
\* not get below the gate line unchallenged: a tick that finds it above the
\* line and sees it come down across the line either puts it back above the
\* line or, at gates 2 and 3 only, sets the bit (the jackpot pass); the per-agent
\* cooldown of an earlier gate event makes no exception.
C40_GateAlwaysChallenges ==
  [][(SimTick /\ SameRound) =>
       \A i \in Marbles : \A b \in DOMAIN game.jetBands :
          LET m == game.marbles[i]
              n == game'.marbles[i]
          IN (/\ BandActive(b)
              /\ ~m.isEliminated /\ ~n.isEliminated
              /\ b \notin m.jetMask
              /\ m.lastY < game.jetBands[b].y
              /\ n.lastY >= game.jetBands[b].y)
             => (b >= 2 /\ b \in n.jetMask)]_vars
====
